---- MODULE Spec2Model ----
(***************************************************************************)
(* Verification model of the IMEX chemistry + hydrodynamics driver         *)
(* (sundials-manyvector-demo): the block-diagonal MPIManyVector linear     *)
(* solver wrapper and the integrator-facing callbacks, the start-up part   *)
(* of the driver, and the Dengo primordial chemistry kernels.              *)
(*                                                                         *)
(* The module holds three state machines over disjoint variable groups:    *)
(*   SpecLS     - one collective callback invocation after another on all  *)
(*                ranks of the communicator (Solve_BDMPIMV, Setup_BDMPIMV, *)
(*                fimpl, Jimpl, fexpl), return codes only;                 *)
(*   SpecDriver - main(): configuration checks, set-up, evolve loop;       *)
(*   SpecChem   - calculate_rhs_cvklu / calculate_jacobian_cvklu on one    *)
(*                rank: per-cell work items over the shared workspace.     *)
(***************************************************************************)
EXTENDS Integers, Sequences, FiniteSets, TLC

----------------------------------------------------------------------------
(* Bounds of the model *)

\* number of MPI ranks in the communicator
NRanks == 2
\* local return codes range over -MaxCode..MaxCode
MaxCode == 2
\* number of collective callback invocations in one behaviour
MaxRounds == 2
\* driver inputs: hmax in 0..MaxHmax, htrans in 0..MaxHtrans,
\* tf - t0 in 1..MaxSpan, nout in 0..MaxNout, restart in -1..MaxRestart
MaxHmax == 1
MaxHtrans == 2
MaxSpan == 2
MaxNout == 2
MaxRestart == 1
\* cells of the local chemistry strip (nstrip)
NCells == 2
\* chemistry kernel calls in one behaviour
MaxCalls == 3

Ranks == 1..NRanks
Codes == (-MaxCode)..MaxCode

----------------------------------------------------------------------------
(* Small helpers *)

MinOf(S) == CHOOSE x \in S : \A y \in S : x <= y
MaxOf(S) == CHOOSE x \in S : \A y \in S : x >= y

----------------------------------------------------------------------------
(* Variables *)

VARIABLES
  \* --- collective callbacks (SpecLS) ---
  call,      \* callback the integrator is invoking on every rank, or "none"
  round,     \* number of collective invocations started so far
  rpc,       \* rpc[r]: position of rank r inside the callback
  ierr,      \* ierr[r]: code returned by the wrapped local operation on rank r
  localDone, \* localDone[r]: the wrapped local operation ran on rank r
  sendbuf,   \* ranks that deposited ierrs in MPI_Allreduce -> their buffer
  globerrs,  \* globerrs[r]: receive buffer of MPI_Allreduce on rank r
  ret,       \* ret[r]: value the callback returned on rank r
  retsite,   \* retsite[r]: the return statement taken on rank r
  lastflag,  \* BDMPIMV_LASTFLAG(S) on rank r
  \* --- main() on every rank (SpecDriver) ---
  dpc,          \* dpc[r]: the part of main() rank r executes next
  opts,         \* opts[r]: fixedstep, hmax, htrans of ARKODEParameters
  udata,        \* udata[r]: t0, tf, nout, nchem of EulerData
  restart,      \* restart[r]: the local variable restart
  NoOutput,     \* NoOutput[r]
  iout,         \* iout[r]: main-loop counter
  tcur,         \* t (times nout) reached by the integrator on rank r
  tout,         \* tout (times nout)
  icCalls,      \* calls of initial_conditions on rank r
  restartReads, \* calls of read_restart on rank r
  dengo,        \* prepare_Dengo_structures has run on rank r
  arkode_mem,   \* the integrator exists on rank r
  hfixed,       \* step size set by ARKStepSetFixedStep, 0 when adaptive
  rhsCalled,    \* some right-hand side has been evaluated on rank r
  evolves,      \* calls of ARKStepEvolve on rank r
  outputs,      \* output numbers handed to output_solution, in order
  scaled,       \* apply_Dengo_scaling calls not yet undone on w
  cleaned,      \* cleanup() has run on rank r
  exitCode,     \* value main() returned on rank r (-1: has not returned)
  aborting,     \* some rank has called MPI_Abort
  evlog,        \* history: evlog[r], the ARKStepEvolve calls of rank r, each
                \* with its phase, its target time and whether it failed
  \* --- chemistry kernels on one rank (SpecChem) ---
  kphase,       \* kernel call in progress: "idle", "rhs" or "jac"
  ncalls,       \* kernel calls started so far
  pending,      \* work items of the call that have not run yet
  ydata,        \* the state vector y handed to the call
  Ts,           \* data->Ts[i]
  dTs_ge,       \* data->dTs_ge[i]
  rs_k01,       \* data->rs_k01[i], standing for every interpolated rate slot
  drs_k01,      \* data->drs_k01[i], standing for every rate-derivative slot
  ydotdata,     \* the RHS output vector
  matrix_data,  \* values of the CSR Jacobian
  colvals,      \* column indices of the CSR Jacobian
  rowptrs,      \* row pointers of the CSR Jacobian
  kstatus,      \* value the last completed kernel call returned
  looked,       \* history: temperatures looked up in the tables by the call
  wrote,        \* history: wrote[i] = locations item i of the call wrote
  readl,        \* history: readl[i] = locations item i of the call read
  rhsSeen,      \* history: an RHS item has run for cell i
  lastY,        \* history: cell state at the latest RHS item of cell i
  lastSeed,     \* history: data->Ts[i] that item started from
  \* --- matrix-free operator on one rank (SpecATimes) ---
  apc,          \* "none", "ready" or "failed": the implicit solver's condition
  TimeUnits,    \* udata->TimeUnits
  ycur,         \* the integrator's current state (chemistry sub-block)
  gamma,        \* the integrator's current gamma
  ewt,          \* the integrator's error weight (chemistry sub-block)
  resid,        \* the nonlinear residual has been evaluated at ycur
  fchemcur,     \* udata->fchemcur
  nfeDQ,        \* content->nfeDQ
  vvec,         \* argument v of the latest ATimes_BDMPIMV call
  zvec,         \* result z of the latest ATimes_BDMPIMV call
  atret,        \* value the latest ATimes_BDMPIMV call returned
  iterative,    \* opts.iterative when SUNLinSol_BDMPIMV built the solver
  callee,       \* history: the callback the integrator called last
  \* --- a run, its restart file and the runs restarted from it (SpecRestart) ---
  rphase,       \* the part of main() the run executes next, "none" before it
  params,       \* the run's parameters: t0 tf nout restart fixedstep htrans hmax
  rNoOutput,    \* NoOutput of the run
  riout,        \* iout of the main loop
  rt,           \* t reached by the integrator
  rtout,        \* tout
  loopOutputs,  \* <<number, time>> of the outputs the main loop has made
  paramFile,    \* contents of restart_parameters.txt, << >> if there is none
  fileFrom,     \* history: generation and output number that wrote the file
  generation,   \* history: 0 for the original run, +1 for every restart
  startedAt,    \* history: output number the run was restarted at
  transients,   \* history: transient evolves the run has made
  original,     \* history: t0, nout and output interval of the original run
  \* --- the state vector w of one rank and its unit scaling (SpecPost) ---
  ppc,          \* "none" before the state exists, "ready" after
  wstate,       \* w: rho, mx, my, mz, et per cell, chem per cell and species
  dscale,       \* the scale factor of every entry of the chemistry sub-block
  EnergyUnits,  \* udata->EnergyUnits
  inPhysical,   \* history: apply_Dengo_scaling has acted and is not undone
  wBefore,      \* history: w before the latest operation
  wUnscaled,    \* history: w before the latest apply_Dengo_scaling
  lastOp,       \* history: the latest operation on w
  ppret,        \* value the latest operation returned
  \* --- load_inputs on every rank (SpecInputs) ---
  lpc,          \* lpc[r]: the part of load_inputs rank r executes next
  helpAsked,    \* -h or --help is on the command line
  fileGiven,    \* "no", "yes", or "unreadable": the -f option and its file
  fileLines,    \* parameter -> value, the lines of the input file
  argvOpts,     \* parameter -> value, the options on the command line
  junk,         \* what memory that was never written holds
  settings,     \* settings[r]: udata, opts and restart of rank r, by name
  dbuff,        \* dbuff[r]
  ibuff,        \* ibuff[r]
  wireD,        \* what the root handed to MPI_Bcast(dbuff, ...), << >> before
  wireI,        \* what the root handed to MPI_Bcast(ibuff, ...), << >> before
  packed,       \* history: the root's settings when it packed the buffers
  lret,         \* lret[r]: value load_inputs returned on rank r
  \* --- fexpl on the state vector of the post-step machine (SpecPost) ---
  wdot,         \* the output vector of the latest fexpl call, << >> otherwise
  hydro,        \* history: what fEuler left in wdot in that call, if it ran
  ppsite,       \* the return statement the latest fexpl call left by
  \* --- the smoke test along one grid line (SpecSmoke) ---
  spc,          \* "none", "run", "failed" or "done"
  sgrid,        \* the line: cells n, boundary tags bcl bcr, axis, dx
  wline,        \* the fluid state of the cells of the line
  rhsline,      \* the explicit RHS of the latest evaluation
  nsteps        \* steps taken

lsVars == <<call, round, rpc, ierr, localDone, sendbuf, globerrs, ret,
            retsite, lastflag>>

drVars == <<dpc, opts, udata, restart, NoOutput, iout, tcur, tout, icCalls,
            restartReads, dengo, arkode_mem, hfixed, rhsCalled, evolves,
            outputs, scaled, cleaned, exitCode, aborting, evlog>>

chVars == <<kphase, ncalls, pending, ydata, Ts, dTs_ge, rs_k01, drs_k01,
            ydotdata, matrix_data, colvals, rowptrs, kstatus, looked, wrote,
            readl, rhsSeen, lastY, lastSeed>>

atVars == <<apc, TimeUnits, ycur, gamma, ewt, resid, fchemcur, nfeDQ, vvec,
            zvec, atret, iterative, callee>>

\* the state machines added to the first three
rsVars == <<rphase, params, rNoOutput, riout, rt, rtout, loopOutputs,
            paramFile, fileFrom, generation, startedAt, transients, original>>

ppVars == <<ppc, wstate, dscale, EnergyUnits, inPhysical, wBefore, wUnscaled,
            lastOp, ppret, wdot, hydro, ppsite>>
inVars == <<lpc, helpAsked, fileGiven, fileLines, argvOpts, junk, settings,
            dbuff, ibuff, wireD, wireI, packed, lret>>
smVars == <<spc, sgrid, wline, rhsline, nsteps>>
lateVars == <<ppVars, inVars, smVars>>
auxVars == <<atVars, rsVars, lateVars>>

vars == <<lsVars, drVars, chVars, auxVars>>

----------------------------------------------------------------------------
(* Each state machine leaves the variables of the others at rest *)

\* main() has not been entered
DriverIdle ==
  /\ dpc = [r \in Ranks |-> "idle"]
  /\ opts = [r \in Ranks |-> [fixedstep |-> 0, hmax |-> 0, htrans |-> 0]]
  /\ udata = [r \in Ranks |-> [t0 |-> 0, tf |-> 0, nout |-> 0, nchem |-> 0,
                                showstats |-> FALSE]]
  /\ restart = [r \in Ranks |-> -1]
  /\ NoOutput = [r \in Ranks |-> 0]
  /\ iout = [r \in Ranks |-> 0]
  /\ tcur = [r \in Ranks |-> 0]
  /\ tout = [r \in Ranks |-> 0]
  /\ icCalls = [r \in Ranks |-> 0]
  /\ restartReads = [r \in Ranks |-> 0]
  /\ dengo = [r \in Ranks |-> FALSE]
  /\ arkode_mem = [r \in Ranks |-> FALSE]
  /\ hfixed = [r \in Ranks |-> 0]
  /\ rhsCalled = [r \in Ranks |-> FALSE]
  /\ evolves = [r \in Ranks |-> 0]
  /\ evlog = [r \in Ranks |-> << >>]
  /\ outputs = [r \in Ranks |-> << >>]
  /\ scaled = [r \in Ranks |-> 0]
  /\ cleaned = [r \in Ranks |-> FALSE]
  /\ exitCode = [r \in Ranks |-> -1]
  /\ aborting = FALSE

\* no chemistry data has been set up
ChemIdle ==
  /\ kphase = "none"
  /\ ncalls = 0
  /\ pending = {}
  /\ ydata = << >>
  /\ Ts = << >>
  /\ dTs_ge = << >>
  /\ rs_k01 = << >>
  /\ drs_k01 = << >>
  /\ ydotdata = << >>
  /\ matrix_data = << >>
  /\ colvals = << >>
  /\ rowptrs = << >>
  /\ kstatus = 0
  /\ looked = {}
  /\ wrote = << >>
  /\ readl = << >>
  /\ rhsSeen = << >>
  /\ lastY = << >>
  /\ lastSeed = << >>

\* no collective callback is in progress
ATimesIdle ==
  /\ apc = "none"
  /\ TimeUnits = 0 /\ ycur = 0 /\ gamma = 0 /\ ewt = 0
  /\ resid = FALSE
  /\ fchemcur = 0 /\ nfeDQ = 0 /\ vvec = 0 /\ zvec = 0 /\ atret = 0
  /\ iterative = FALSE /\ callee = "none"

RestartIdle ==
  /\ rphase = "none"
  /\ params = << >> /\ paramFile = << >> /\ fileFrom = << >> /\ original = << >>
  /\ loopOutputs = << >>
  /\ rNoOutput = 0 /\ riout = 0 /\ rt = 0 /\ rtout = 0
  /\ generation = 0 /\ startedAt = 0 /\ transients = 0

PostIdle ==
  /\ ppc = "none"
  /\ wstate = << >>
  /\ dscale = << >>
  /\ EnergyUnits = 1
  /\ inPhysical = FALSE
  /\ wBefore = << >>
  /\ wUnscaled = << >>
  /\ lastOp = "none"
  /\ ppret = 0
  /\ wdot = << >> /\ hydro = << >> /\ ppsite = "none"

InputsIdle ==
  /\ lpc = << >>
  /\ helpAsked = FALSE
  /\ fileGiven = "no"
  /\ fileLines = << >>
  /\ argvOpts = << >>
  /\ junk = 0
  /\ settings = << >>
  /\ dbuff = << >>
  /\ ibuff = << >>
  /\ wireD = << >>
  /\ wireI = << >>
  /\ packed = << >>
  /\ lret = << >>

SmokeIdle ==
  /\ spc = "none"
  /\ sgrid = << >>
  /\ wline = << >>
  /\ rhsline = << >>
  /\ nsteps = 0

LateIdle == PostIdle /\ InputsIdle /\ SmokeIdle

AuxIdle == ATimesIdle /\ RestartIdle /\ LateIdle

LSIdle ==
  /\ call = "none"
  /\ round = 0
  /\ rpc = [r \in Ranks |-> "idle"]
  /\ ierr = [r \in Ranks |-> 0]
  /\ localDone = [r \in Ranks |-> FALSE]
  /\ sendbuf = << >>
  /\ globerrs = [r \in Ranks |-> <<0, 0>>]
  /\ ret = [r \in Ranks |-> 0]
  /\ retsite = [r \in Ranks |-> "none"]
  /\ lastflag = [r \in Ranks |-> 0]

----------------------------------------------------------------------------
(* Block-diagonal MPIManyVector linear solver and callbacks: return codes *)

\* SUNLS_MEM_FAIL of the SUNDIALS linear-solver interface
SUNLS_MEM_FAIL == -803

\* check_flag(&retval, ..., 1): a SUNDIALS-style flag check.  Negative flags
\* are reported, zero is not; the helper is not part of the sources at hand,
\* so for a positive flag both outcomes are kept.
check_flag1(retval) ==
  IF retval < 0 THEN {TRUE} ELSE IF retval = 0 THEN {FALSE} ELSE {TRUE, FALSE}

\* codes a failing Profile::start / Profile::stop may hand back
TimerCodes == {-1, 1}

\* ierrs[0] = ierr; ierrs[1] = -ierr;
IerrsSame(e) == <<e, e>>
Ierrs(e) == <<e, -e>>

\* MPI_Allreduce(ierrs, globerrs, 2, MPI_INT, MPI_MIN, comm)
AllreduceMin(buf) ==
  << MinOf({buf[r][1] : r \in DOMAIN buf}), MinOf({buf[r][2] : r \in DOMAIN buf}) >>

\* the value Solve_BDMPIMV stores in lastflag and returns after the reduction
SolveStatusMinOnly(g) == g[1]
SolveStatus(g) == IF g[1] < 0 THEN g[1] ELSE -g[2]

\* the state SUNLinSol_BDMPIMV leaves: no call in progress, last flag 0
LSInit == LSIdle /\ DriverIdle /\ ChemIdle /\ AuxIdle

\* The integrator invokes callback c on every rank (it is called collectively).
Invoke(c) ==
  /\ call = "none"
  /\ round < MaxRounds
  /\ call' = c
  /\ round' = round + 1
  /\ rpc' = [r \in Ranks |-> "entered"]
  /\ ierr' = [r \in Ranks |-> 0]
  /\ localDone' = [r \in Ranks |-> FALSE]
  /\ sendbuf' = << >>
  /\ globerrs' = [r \in Ranks |-> <<0, 0>>]
  /\ ret' = [r \in Ranks |-> 0]
  /\ retsite' = [r \in Ranks |-> "none"]
  /\ UNCHANGED lastflag

\* Every rank has returned: the integrator takes the codes and goes on.
Collect ==
  /\ call # "none"
  /\ \A r \in Ranks : rpc[r] = "returned"
  /\ call' = "none"
  /\ rpc' = [r \in Ranks |-> "idle"]
  /\ UNCHANGED <<round, ierr, localDone, sendbuf, globerrs, ret, retsite, lastflag>>

Return(r, site, val) ==
  /\ rpc' = [rpc EXCEPT ![r] = "returned"]
  /\ ret' = [ret EXCEPT ![r] = val]
  /\ retsite' = [retsite EXCEPT ![r] = site]

\* Solve_BDMPIMV from its entry to the blocking MPI_Allreduce
SolveEnter(r) ==
  /\ call = "solve" /\ rpc[r] = "entered"
  /\ \E timerOk \in BOOLEAN, subvecOk \in BOOLEAN, c \in Codes, mpiTimerOk \in BOOLEAN :
       IF ~timerOk THEN
         /\ Return(r, "timer", -1)
         /\ UNCHANGED <<ierr, localDone, sendbuf, lastflag>>
       ELSE IF ~subvecOk THEN
         /\ lastflag' = [lastflag EXCEPT ![r] = SUNLS_MEM_FAIL]
         /\ Return(r, "memfail", SUNLS_MEM_FAIL)
         /\ UNCHANGED <<ierr, localDone, sendbuf>>
       ELSE
         /\ ierr' = [ierr EXCEPT ![r] = c]
         /\ localDone' = [localDone EXCEPT ![r] = TRUE]
         /\ IF ~mpiTimerOk THEN
              /\ Return(r, "timer", -1)
              /\ UNCHANGED <<sendbuf, lastflag>>
            ELSE
              /\ sendbuf' = (r :> Ierrs(c)) @@ sendbuf
              /\ rpc' = [rpc EXCEPT ![r] = "waiting"]
              /\ UNCHANGED <<ret, retsite, lastflag>>
  /\ UNCHANGED <<call, round, globerrs>>

\* Solve_BDMPIMV from the completion of MPI_Allreduce to its return
SolveReduce(r) ==
  /\ call = "solve" /\ rpc[r] = "waiting"
  /\ DOMAIN sendbuf = Ranks
  /\ LET g == AllreduceMin(sendbuf) IN
     /\ globerrs' = [globerrs EXCEPT ![r] = g]
     /\ \E mpiTimerOk \in BOOLEAN, timerOk \in BOOLEAN :
          IF ~mpiTimerOk THEN
            /\ Return(r, "timer", -1)
            /\ UNCHANGED lastflag
          ELSE
            /\ lastflag' = [lastflag EXCEPT ![r] = SolveStatus(g)]
            /\ IF ~timerOk THEN Return(r, "timer", -1)
               ELSE Return(r, IF g[1] < 0 THEN "unrecoverable" ELSE "status",
                           SolveStatus(g))
  /\ UNCHANGED <<call, round, ierr, localDone, sendbuf>>

\* Setup_BDMPIMV: the setup call is passed down to the block linear solver
SetupRank(r) ==
  /\ call = "setup" /\ rpc[r] = "entered"
  /\ \E startCode \in TimerCodes \cup {0}, c \in Codes, stopCode \in TimerCodes \cup {0} :
     \E startFlagged \in check_flag1(startCode), stopFlagged \in check_flag1(stopCode) :
       IF startFlagged THEN
         /\ Return(r, "timer", startCode)
         /\ UNCHANGED <<ierr, localDone, lastflag>>
       ELSE
         /\ ierr' = [ierr EXCEPT ![r] = c]
         /\ localDone' = [localDone EXCEPT ![r] = TRUE]
         /\ lastflag' = [lastflag EXCEPT ![r] = c]
         /\ IF stopFlagged
            THEN Return(r, "timer", stopCode)
            ELSE Return(r, "status", c)
  /\ UNCHANGED <<call, round, sendbuf, globerrs>>

\* return value of calculate_rhs_cvklu / calculate_jacobian_cvklu: the host
\* build always returns 0, the device build returns -1 on a device error
calculate_status(cuerr) == IF cuerr THEN -1 ELSE 0

\* fimpl: return code (envOk: timers and sub-vector look-ups succeed)
FimplRank(r) ==
  /\ call = "fimpl" /\ rpc[r] = "entered"
  /\ \E startOk \in BOOLEAN, cuerr \in BOOLEAN, stopOk \in BOOLEAN :
       IF ~startOk THEN
         /\ Return(r, "early", -1)
         /\ UNCHANGED <<ierr, localDone>>
       ELSE
         /\ ierr' = [ierr EXCEPT ![r] = calculate_status(cuerr)]
         /\ localDone' = [localDone EXCEPT ![r] = TRUE]
         /\ \E flagged \in check_flag1(calculate_status(cuerr)) :
              IF flagged THEN Return(r, "status", calculate_status(cuerr))
              ELSE IF ~stopOk THEN Return(r, "timer", -1)
              ELSE Return(r, "ok", 0)
  /\ UNCHANGED <<call, round, sendbuf, globerrs, lastflag>>

\* Jimpl: return code
JimplRank(r) ==
  /\ call = "Jimpl" /\ rpc[r] = "entered"
  /\ \E startOk \in BOOLEAN, cuerr \in BOOLEAN, stopOk \in BOOLEAN :
       IF ~startOk THEN
         /\ Return(r, "early", -1)
         /\ UNCHANGED <<ierr, localDone>>
       ELSE
         /\ ierr' = [ierr EXCEPT ![r] = calculate_status(cuerr)]
         /\ localDone' = [localDone EXCEPT ![r] = TRUE]
         /\ \E flagged \in check_flag1(calculate_status(cuerr)) :
              IF flagged THEN Return(r, "status", calculate_status(cuerr))
              ELSE IF ~stopOk THEN Return(r, "timer", -1)
              ELSE Return(r, "ok", 0)
  /\ UNCHANGED <<call, round, sendbuf, globerrs, lastflag>>

\* fexpl: return code (c: the code fEuler returns on this rank)
FexplRank(r) ==
  /\ call = "fexpl" /\ rpc[r] = "entered"
  /\ \E startOk \in BOOLEAN, c \in Codes, stopOk \in BOOLEAN :
       IF ~startOk THEN
         /\ Return(r, "early", -1)
         /\ UNCHANGED <<ierr, localDone>>
       ELSE
         /\ ierr' = [ierr EXCEPT ![r] = c]
         /\ localDone' = [localDone EXCEPT ![r] = TRUE]
         /\ \E flagged \in check_flag1(c) :
              IF flagged THEN Return(r, "status", c)
              ELSE IF ~stopOk THEN Return(r, "timer", -1)
              ELSE Return(r, "ok", 0)
  /\ UNCHANGED <<call, round, sendbuf, globerrs, lastflag>>

LSFrame == UNCHANGED <<drVars, chVars, auxVars>>

LSNext ==
  \/ (\E c \in {"solve", "setup", "fimpl", "Jimpl", "fexpl"} : Invoke(c)) /\ LSFrame
  \/ Collect /\ LSFrame
  \/ (\E r \in Ranks : SolveEnter(r)) /\ LSFrame
  \/ (\E r \in Ranks : SolveReduce(r)) /\ LSFrame
  \/ (\E r \in Ranks : SetupRank(r)) /\ LSFrame
  \/ (\E r \in Ranks : FimplRank(r)) /\ LSFrame
  \/ (\E r \in Ranks : JimplRank(r)) /\ LSFrame
  \/ (\E r \in Ranks : FexplRank(r)) /\ LSFrame

SpecLS == LSInit /\ [][LSNext]_vars

----------------------------------------------------------------------------
(* Claims about the collective callbacks *)

\* the local solve codes of the ranks that ran the wrapped solve
LocalCodes == {ierr[s] : s \in {q \in Ranks : localDone[q]}}

\* C1: in one collective solve, if the wrapped local solve of some rank
\* returned a failure code, no rank returns 0 from solve: every rank that
\* returns, returns a nonzero status.
InvC1 ==
  \A r \in Ranks :
    (call = "solve" /\ rpc[r] = "returned"
       /\ \E s \in Ranks : localDone[s] /\ ierr[s] # 0)
    => ret[r] # 0

\* C1 witness: every rank went through the reduction, one local solve failed
\* with a recoverable code while another succeeded, and the rank whose own
\* solve succeeded reports the failure.
WitC1 ==
  /\ call = "solve"
  /\ \A r \in Ranks : rpc[r] = "returned" /\ retsite[r] = "status"
  /\ \E s, q \in Ranks : ierr[s] > 0 /\ ierr[q] = 0 /\ ret[q] > 0

\* C2: when all ranks perform the status reduction, every rank that returns
\* the reduced status returns the same value: the minimum of the local codes
\* if one of them is negative, otherwise their maximum, which is 0 exactly
\* when every local code is 0 and positive otherwise.
InvC2 ==
  \A r \in Ranks :
    (call = "solve" /\ rpc[r] = "returned"
       /\ retsite[r] \in {"status", "unrecoverable"})
    => /\ DOMAIN sendbuf = Ranks
       /\ LocalCodes = {ierr[s] : s \in Ranks}
       /\ ret[r] = IF \E s \in Ranks : ierr[s] < 0
                   THEN MinOf(LocalCodes) ELSE MaxOf(LocalCodes)
       /\ lastflag[r] = ret[r]
       /\ (ret[r] = 0) <=> (\A s \in Ranks : ierr[s] = 0)
       /\ (\A s \in Ranks : ierr[s] >= 0) => ret[r] >= 0
       /\ \A q \in Ranks :
            (rpc[q] = "returned" /\ retsite[q] \in {"status", "unrecoverable"})
            => ret[q] = ret[r]

\* C2 witness: the ranks hold different local codes, one of them negative,
\* and all of them return the minimum.
WitC2 ==
  /\ call = "solve"
  /\ \A r \in Ranks : rpc[r] = "returned" /\ retsite[r] = "unrecoverable"
  /\ \E s, q \in Ranks : ierr[s] < 0 /\ ierr[q] > 0
  /\ \A r \in Ranks : ret[r] = MinOf(LocalCodes)

\* C3 as stated: every per-rank numerical error is reduced to the worst case
\* before it is reported: whenever an integrator-facing callback returns the
\* failure status of its numerical kernel on one rank, the same call returns
\* a failure status on every rank.
CexC3 ==
  (call # "none" /\ \A r \in Ranks : rpc[r] = "returned")
  => ((\E r \in Ranks : retsite[r] = "status" /\ ret[r] # 0)
        => (\A r \in Ranks : ret[r] # 0))

----------------------------------------------------------------------------
(* main(): one control flow per rank.  Times are kept multiplied by         *)
(* udata.nout, so that dTout = (tf - t0)/nout is the integer tf - t0.       *)

\* number of chemical species the executable is compiled with
NSPECIES == 10

\* return values of ARKStepEvolve: failure, success, success with warning
EvolveCodes == {-1, 0, 1}

\* an output interval of the whole time span
dToutWholeSpan(u) == (u.tf - u.t0) * u.nout

\* dTout = (udata.tf - udata.t0)/udata.nout, times nout
dTout(u) == u.tf - u.t0

\* opts.fixedstep && (opts.hmax <= ZERO)
FixedStepWithoutHmax(o) == o.fixedstep # 0 /\ o.hmax <= 0

\* if (opts.fixedstep != 1): the adaptive parameters are set, otherwise the
\* fixed step
AdaptiveAlways(o) == TRUE
AdaptiveAtCreation(o) == o.fixedstep # 1

\* opts.htrans >= dTout
HtransNeverTooLong(o, u) == FALSE
HtransTooLong(o, u) == o.htrans * u.nout >= dTout(u)

\* the state after load_inputs and SetupDecomp: every rank holds the same
\* broadcast parameters
DriverInit ==
  /\ LSIdle
  /\ ChemIdle
  /\ AuxIdle
  /\ \E fs \in 0..2, hm \in 0..MaxHmax, ht \in 0..MaxHtrans,
        span \in 1..MaxSpan, no \in 0..MaxNout, nc \in {0, NSPECIES},
        rs \in (-1)..MaxRestart :
       /\ opts = [r \in Ranks |-> [fixedstep |-> fs, hmax |-> hm, htrans |-> ht]]
       /\ \E ss \in BOOLEAN :
            udata = [r \in Ranks |-> [t0 |-> 0, tf |-> span, nout |-> no,
                                      nchem |-> nc, showstats |-> ss]]
       /\ restart = [r \in Ranks |-> rs]
  /\ dpc = [r \in Ranks |-> "SetOutput"]
  /\ NoOutput = [r \in Ranks |-> 0]
  /\ iout = [r \in Ranks |-> 0]
  /\ tcur = [r \in Ranks |-> 0]
  /\ tout = [r \in Ranks |-> 0]
  /\ icCalls = [r \in Ranks |-> 0]
  /\ restartReads = [r \in Ranks |-> 0]
  /\ dengo = [r \in Ranks |-> FALSE]
  /\ arkode_mem = [r \in Ranks |-> FALSE]
  /\ hfixed = [r \in Ranks |-> 0]
  /\ rhsCalled = [r \in Ranks |-> FALSE]
  /\ evolves = [r \in Ranks |-> 0]
  /\ evlog = [r \in Ranks |-> << >>]
  /\ outputs = [r \in Ranks |-> << >>]
  /\ scaled = [r \in Ranks |-> 0]
  /\ cleaned = [r \in Ranks |-> FALSE]
  /\ exitCode = [r \in Ranks |-> -1]
  /\ aborting = FALSE

Running(r) == dpc[r] \notin {"idle", "aborted", "returned"}

Goto(r, next) == dpc' = [dpc EXCEPT ![r] = next]

\* MPI_Abort(udata.comm, 1) called by rank r: r stops here, the other ranks
\* are taken down some time later
MPI_Abort(r) ==
  /\ dpc' = [dpc EXCEPT ![r] = "aborted"]
  /\ aborting' = TRUE

\* the MPI runtime terminates rank r after another rank's MPI_Abort
Killed(r) ==
  /\ aborting
  /\ Running(r)
  /\ dpc' = [dpc EXCEPT ![r] = "aborted"]
  /\ UNCHANGED <<opts, udata, restart, NoOutput, iout, tcur, tout, icCalls,
                 restartReads, dengo, arkode_mem, hfixed, rhsCalled, evolves, evlog,
                 outputs, scaled, cleaned, exitCode, aborting>>

\* set NoOutput flag based on nout input
SetOutput(r) ==
  /\ dpc[r] = "SetOutput"
  /\ IF udata[r].nout <= 0
     THEN /\ NoOutput' = [NoOutput EXCEPT ![r] = 1]
          /\ udata' = [udata EXCEPT ![r].nout = 1]
     ELSE /\ NoOutput' = [NoOutput EXCEPT ![r] = 0]
          /\ UNCHANGED udata
  /\ Goto(r, "CheckConfig")
  /\ UNCHANGED <<opts, restart, iout, tcur, tout, icCalls, restartReads, dengo,
                 arkode_mem, hfixed, rhsCalled, evolves, evlog, outputs, scaled,
                 cleaned, exitCode, aborting>>

\* the three configuration checks, with the update of opts.fixedstep that
\* sits between the first and the second
CheckConfig(r) ==
  /\ dpc[r] = "CheckConfig"
  /\ IF FixedStepWithoutHmax(opts[r]) THEN
       /\ MPI_Abort(r)
       /\ UNCHANGED opts
     ELSE
       /\ opts' = [opts EXCEPT ![r].fixedstep =
                     IF opts[r].fixedstep # 0 /\ opts[r].htrans > 0
                     THEN 2 ELSE opts[r].fixedstep]
       /\ IF HtransTooLong(opts[r], udata[r]) THEN MPI_Abort(r)
          ELSE IF udata[r].nchem = 0 THEN MPI_Abort(r)
          ELSE Goto(r, "InitialState") /\ UNCHANGED aborting
  /\ UNCHANGED <<udata, restart, NoOutput, iout, tcur, tout, icCalls,
                 restartReads, dengo, arkode_mem, hfixed, rhsCalled, evolves, evlog,
                 outputs, scaled, cleaned, exitCode>>

\* if (restart < 0): the run is not a restart
FreshRunAlways(rs) == TRUE
FreshRun(rs) == rs < 0

\* set initial conditions (or restart from file)
InitialState(r) ==
  /\ dpc[r] = "InitialState"
  /\ \E ok \in BOOLEAN :
       /\ IF FreshRun(restart[r])
          THEN /\ icCalls' = [icCalls EXCEPT ![r] = @ + 1]
               /\ restart' = [restart EXCEPT ![r] = IF ok THEN 0 ELSE @]
               /\ UNCHANGED restartReads
          ELSE /\ restartReads' = [restartReads EXCEPT ![r] = @ + 1]
               /\ UNCHANGED <<icCalls, restart>>
       /\ IF ok THEN Goto(r, "PrepareDengo") /\ UNCHANGED aborting
          ELSE MPI_Abort(r)
  /\ UNCHANGED <<opts, udata, NoOutput, iout, tcur, tout, dengo, arkode_mem,
                 hfixed, rhsCalled, evolves, evlog, outputs, scaled, cleaned, exitCode>>

\* prepare Dengo structures and initial condition vector
PrepareDengo(r) ==
  /\ dpc[r] = "PrepareDengo"
  /\ \E ok \in BOOLEAN :
       IF ok THEN /\ dengo' = [dengo EXCEPT ![r] = TRUE]
                  /\ Goto(r, "CreateIntegrator")
                  /\ UNCHANGED aborting
       ELSE MPI_Abort(r) /\ UNCHANGED dengo
  /\ UNCHANGED <<opts, udata, restart, NoOutput, iout, tcur, tout, icCalls,
                 restartReads, arkode_mem, hfixed, rhsCalled, evolves, evlog, outputs,
                 scaled, cleaned, exitCode>>

\* create the ARKStep integrator and set its options: adaptive parameters if
\* fixedstep != 1, otherwise the fixed step hmax; t = t0, tout = t0 + dTout
CreateIntegrator(r) ==
  /\ dpc[r] = "CreateIntegrator"
  /\ \E ok \in BOOLEAN :
       IF ok THEN
         /\ arkode_mem' = [arkode_mem EXCEPT ![r] = TRUE]
         /\ hfixed' = [hfixed EXCEPT ![r] =
                         IF AdaptiveAtCreation(opts[r]) THEN 0 ELSE opts[r].hmax]
         /\ tcur' = [tcur EXCEPT ![r] = udata[r].t0 * udata[r].nout]
         /\ tout' = [tout EXCEPT ![r] = udata[r].t0 * udata[r].nout + dTout(udata[r])]
         /\ Goto(r, "InitialOutput")
         /\ UNCHANGED aborting
       ELSE
         /\ MPI_Abort(r)
         /\ UNCHANGED <<arkode_mem, hfixed, tcur, tout>>
  /\ UNCHANGED <<opts, udata, restart, NoOutput, iout, icCalls, restartReads,
                 dengo, rhsCalled, evolves, evlog, outputs, scaled, cleaned, exitCode>>

\* the same without unapply_Dengo_scaling
ScaledOutputLeftScaled(r, number, ok, next) ==
  /\ scaled' = [scaled EXCEPT ![r] = @ + 1]
  /\ outputs' = [outputs EXCEPT ![r] =
                   IF NoOutput[r] = 0 THEN Append(@, number) ELSE @]
  /\ Goto(r, next)
  /\ UNCHANGED aborting

\* apply_Dengo_scaling, output_solution(..., number, ...) unless NoOutput,
\* print_stats if showstats (PRINT_CGS is 1), unapply_Dengo_scaling; a failing
\* output_solution or print_stats aborts in between
ScaledOutput(r, number, ok, next) ==
  IF (NoOutput[r] = 0 \/ udata[r].showstats) /\ ~ok THEN
    /\ scaled' = [scaled EXCEPT ![r] = @ + 1]
    /\ MPI_Abort(r)
    /\ \/ UNCHANGED outputs
       \/ /\ NoOutput[r] = 0 /\ udata[r].showstats
          /\ outputs' = [outputs EXCEPT ![r] = Append(@, number)]
  ELSE
    /\ outputs' = [outputs EXCEPT ![r] =
                     IF NoOutput[r] = 0 THEN Append(@, number) ELSE @]
    /\ Goto(r, next)
    /\ UNCHANGED <<scaled, aborting>>

\* initial batch of outputs
InitialOutput(r) ==
  /\ dpc[r] = "InitialOutput"
  /\ \E ok \in BOOLEAN :
       ScaledOutput(r, restart[r], ok,
                    IF opts[r].fixedstep = 2 THEN "Transient" ELSE "BeginLoop")
  /\ UNCHANGED <<opts, udata, restart, NoOutput, iout, tcur, tout, icCalls,
                 restartReads, dengo, arkode_mem, hfixed, rhsCalled, evolves, evlog,
                 cleaned, exitCode>>

\* a return(0) without cleanup
FailedEvolveUnnoticed(r) ==
  /\ UNCHANGED <<cleaned, arkode_mem>>
  /\ exitCode' = [exitCode EXCEPT ![r] = 0]
  /\ Goto(r, "returned")

\* cleanup(...); return(1) after a failed ARKStepEvolve
FailedEvolve(r) ==
  /\ cleaned' = [cleaned EXCEPT ![r] = TRUE]
  /\ arkode_mem' = [arkode_mem EXCEPT ![r] = FALSE]
  /\ exitCode' = [exitCode EXCEPT ![r] = 1]
  /\ Goto(r, "returned")

\* the entry of evlog for a call of ARKStepEvolve
Evolved(r, phase, target, retval) ==
  evlog' = [evlog EXCEPT ![r] =
              Append(@, [phase |-> phase, target |-> target, failed |-> retval < 0])]

\* initial transient evolution over [t0, t0 + htrans], the statistics in
\* physical units if showstats (apply_Dengo_scaling, print_stats,
\* unapply_Dengo_scaling), then fixed steps
Transient(r) ==
  /\ dpc[r] = "Transient"
  /\ \E retval \in EvolveCodes, ok \in BOOLEAN :
       /\ tout' = [tout EXCEPT ![r] = (udata[r].t0 + opts[r].htrans) * udata[r].nout]
       /\ evolves' = [evolves EXCEPT ![r] = @ + 1]
       /\ Evolved(r, "transient", tout'[r], retval)
       /\ rhsCalled' = [rhsCalled EXCEPT ![r] = TRUE]
       /\ IF retval < 0 THEN
            /\ FailedEvolve(r)
            /\ UNCHANGED <<tcur, hfixed, scaled, aborting>>
          ELSE IF udata[r].showstats /\ ~ok THEN
            /\ tcur' = [tcur EXCEPT ![r] = tout'[r]]
            /\ scaled' = [scaled EXCEPT ![r] = @ + 1]
            /\ MPI_Abort(r)
            /\ UNCHANGED <<hfixed, cleaned, arkode_mem, exitCode>>
          ELSE
            /\ tcur' = [tcur EXCEPT ![r] = tout'[r]]
            /\ hfixed' = [hfixed EXCEPT ![r] = opts[r].hmax]
            /\ Goto(r, "BeginLoop")
            /\ UNCHANGED <<cleaned, arkode_mem, exitCode, scaled, aborting>>
  /\ UNCHANGED <<opts, udata, restart, NoOutput, iout, icCalls, restartReads,
                 dengo, outputs>>

\* tout = udata.t0 + dTout; iout = restart
BeginLoop(r) ==
  /\ dpc[r] = "BeginLoop"
  /\ tout' = [tout EXCEPT ![r] = udata[r].t0 * udata[r].nout + dTout(udata[r])]
  /\ iout' = [iout EXCEPT ![r] = restart[r]]
  /\ Goto(r, "MainLoop")
  /\ UNCHANGED <<opts, udata, restart, NoOutput, tcur, icCalls, restartReads,
                 dengo, arkode_mem, hfixed, rhsCalled, evolves, evlog, outputs, scaled,
                 cleaned, exitCode, aborting>>

\* one pass of the main time-stepping loop
MainLoop(r) ==
  /\ dpc[r] = "MainLoop"
  /\ iout[r] < restart[r] + udata[r].nout
  /\ \E retval \in EvolveCodes, ok \in BOOLEAN :
       /\ evolves' = [evolves EXCEPT ![r] = @ + 1]
       /\ Evolved(r, "main", tout[r], retval)
       /\ rhsCalled' = [rhsCalled EXCEPT ![r] = TRUE]
       /\ IF retval >= 0 THEN
            /\ tcur' = [tcur EXCEPT ![r] = tout[r]]
            /\ tout' = [tout EXCEPT ![r] =
                          MinOf({tout[r] + dTout(udata[r]), udata[r].tf * udata[r].nout})]
            /\ ScaledOutput(r, iout[r] + 1, ok, "MainLoop")
            /\ iout' = [iout EXCEPT ![r] = IF dpc'[r] = "MainLoop" THEN @ + 1 ELSE @]
            /\ UNCHANGED <<cleaned, arkode_mem, exitCode>>
          ELSE
            /\ FailedEvolve(r)
            /\ UNCHANGED <<tcur, tout, iout, outputs, scaled, aborting>>
  /\ UNCHANGED <<opts, udata, restart, NoOutput, icCalls, restartReads, dengo,
                 hfixed>>

\* after the loop: final statistics, cleanup, MPI_Finalize, return 0
Finish(r) ==
  /\ dpc[r] = "MainLoop"
  /\ iout[r] >= restart[r] + udata[r].nout
  /\ cleaned' = [cleaned EXCEPT ![r] = TRUE]
  /\ arkode_mem' = [arkode_mem EXCEPT ![r] = FALSE]
  /\ exitCode' = [exitCode EXCEPT ![r] = 0]
  /\ Goto(r, "returned")
  /\ UNCHANGED <<opts, udata, restart, NoOutput, iout, tcur, tout, icCalls,
                 restartReads, dengo, hfixed, rhsCalled, evolves, evlog, outputs,
                 scaled, aborting>>

DriverFrame == UNCHANGED <<lsVars, chVars, auxVars>>

DriverNext ==
  \/ (\E r \in Ranks : SetOutput(r)) /\ DriverFrame
  \/ (\E r \in Ranks : CheckConfig(r)) /\ DriverFrame
  \/ (\E r \in Ranks : InitialState(r)) /\ DriverFrame
  \/ (\E r \in Ranks : PrepareDengo(r)) /\ DriverFrame
  \/ (\E r \in Ranks : CreateIntegrator(r)) /\ DriverFrame
  \/ (\E r \in Ranks : InitialOutput(r)) /\ DriverFrame
  \/ (\E r \in Ranks : Transient(r)) /\ DriverFrame
  \/ (\E r \in Ranks : BeginLoop(r)) /\ DriverFrame
  \/ (\E r \in Ranks : MainLoop(r)) /\ DriverFrame
  \/ (\E r \in Ranks : Finish(r)) /\ DriverFrame
  \/ (\E r \in Ranks : Killed(r)) /\ DriverFrame

SpecDriver == DriverInit /\ [][DriverNext]_vars

----------------------------------------------------------------------------
(* Claims about the driver *)

\* the parameters rank r read describe a configuration error: fixed
\* stepping without a positive hmax, htrans >= dTout = (tf - t0)/nout with
\* nout the number of output intervals in use, or no chemical species
ConfigError(r) ==
  \/ opts[r].fixedstep # 0 /\ opts[r].hmax <= 0
  \/ opts[r].htrans * (IF udata[r].nout <= 0 THEN 1 ELSE udata[r].nout)
       >= udata[r].tf - udata[r].t0
  \/ udata[r].nchem = 0

\* C4: with a configuration error no rank ever sets initial conditions,
\* reads a restart file, prepares the chemistry, creates the integrator,
\* evaluates a right-hand side or returns from main(); every rank is still
\* in the checks or aborted.
InvC4 ==
  \A r \in Ranks :
    ConfigError(r) =>
      /\ dpc[r] \in {"SetOutput", "CheckConfig", "aborted"}
      /\ icCalls[r] = 0 /\ restartReads[r] = 0
      /\ ~dengo[r] /\ ~arkode_mem[r] /\ ~rhsCalled[r]
      /\ evolves[r] = 0 /\ outputs[r] = << >>
      /\ exitCode[r] = -1

\* C4 witness: htrans >= dTout is the only error of the run and every rank
\* has been stopped by the abort
WitC4 ==
  /\ \A r \in Ranks :
       /\ dpc[r] = "aborted"
       /\ opts[r].htrans * udata[r].nout >= udata[r].tf - udata[r].t0
       /\ ~(opts[r].fixedstep # 0 /\ opts[r].hmax <= 0)
       /\ udata[r].nchem # 0
       /\ icCalls[r] = 0 /\ ~arkode_mem[r]
  /\ aborting

\* rank r calls ARKStepEvolve in this step
EvolveStep(r) == evolves'[r] = evolves[r] + 1

\* the integrator of rank r is in fixed-step mode with h = hmax
FixedStepInForce(r) == hfixed[r] = opts[r].hmax /\ opts[r].hmax > 0

\* fixedstep=1 and htrans=0: every evolve call is made in fixed-step mode,
\* which the call leaves in force
FixedFromTheStart(r) ==
  (EvolveStep(r) /\ opts[r].fixedstep = 1 /\ opts[r].htrans = 0) =>
    FixedStepInForce(r) /\ hfixed'[r] = hfixed[r]

\* fixedstep=1 and htrans>0 (fixedstep has become 2 when the evolve calls
\* are made): the first evolve call is adaptive, from t0 up to the stop time
\* t0+htrans, and enables fixed-step mode exactly when it returns success;
\* every later evolve call is made in fixed-step mode; no other step changes
\* the mode
FixedAfterTransient(r) ==
  (opts[r].fixedstep \in {1, 2} /\ opts[r].htrans > 0) =>
    IF ~EvolveStep(r) THEN hfixed'[r] = hfixed[r]
    ELSE IF evolves[r] = 0 THEN
      /\ hfixed[r] = 0
      /\ tcur[r] = udata[r].t0 * udata[r].nout
      /\ tout'[r] = (udata[r].t0 + opts[r].htrans) * udata[r].nout
      /\ IF dpc'[r] = "returned"
         THEN hfixed'[r] = 0 /\ exitCode'[r] = 1
         ELSE IF dpc'[r] = "aborted"
         THEN \* the statistics after the transient phase failed: MPI_Abort
              tcur'[r] = tout'[r] /\ hfixed'[r] = 0
         ELSE /\ tcur'[r] = tout'[r]
              /\ hfixed'[r] = opts[r].hmax /\ opts[r].hmax > 0
    ELSE FixedStepInForce(r) /\ hfixed'[r] = hfixed[r]

\* C11: with fixedstep=1 and htrans=0 fixed-step mode with h=hmax is set
\* before the first evolve call and stays in force; with fixedstep=1 and
\* htrans>0 the first evolve is adaptive over exactly [t0, t0+htrans], fixed-
\* step mode with h=hmax is enabled only when it has returned successfully
\* and is in force for every later evolve call.
InvC11 == [][\A r \in Ranks : FixedFromTheStart(r) /\ FixedAfterTransient(r)]_vars

\* a rank has made the transient evolve and a fixed-step evolve after it
WitC11 ==
  \E r \in Ranks :
    /\ opts[r].fixedstep = 2 /\ opts[r].htrans > 0
    /\ evolves[r] >= 2 /\ FixedStepInForce(r)
    /\ tcur[r] > (udata[r].t0 + opts[r].htrans) * udata[r].nout

\* the state of rank r has been set at most once, and exactly once when its
\* integrator exists or a right-hand side has been evaluated; while restart
\* is negative no restart file has been read
StateSetOnce(r) ==
  /\ icCalls[r] + restartReads[r] <= 1
  /\ (arkode_mem[r] \/ rhsCalled[r] \/ evolves[r] > 0) =>
       icCalls[r] + restartReads[r] = 1
  /\ restart[r] < 0 => restartReads[r] = 0

\* initial_conditions is invoked only with restart < 0, before the integrator
\* is created and before any right-hand side evaluation; read_restart is
\* invoked only with restart >= 0, which the run then was given
StateSetInOrder(r) ==
  /\ icCalls'[r] # icCalls[r] =>
       /\ restart[r] < 0 /\ icCalls[r] = 0 /\ restartReads[r] = 0
       /\ ~arkode_mem[r] /\ ~arkode_mem'[r] /\ ~rhsCalled[r] /\ ~rhsCalled'[r]
  /\ restartReads'[r] # restartReads[r] =>
       /\ restart[r] >= 0 /\ restart'[r] = restart[r] /\ icCalls[r] = 0
       /\ ~arkode_mem[r] /\ ~rhsCalled[r]
  /\ restart'[r] # restart[r] => icCalls'[r] = icCalls[r] + 1

\* C12: a run that is not a restart invokes initial_conditions exactly once,
\* before the integrator is created and before any RHS evaluation; a
\* restarted run never invokes it and loads the state with read_restart.
InvC12 ==
  /\ [](\A r \in Ranks : StateSetOnce(r))
  /\ [][\A r \in Ranks : StateSetInOrder(r)]_vars

\* a run that is not a restart has set its initial conditions once and has
\* gone on to evaluate right-hand sides
WitC12 ==
  \A r \in Ranks :
    /\ icCalls[r] = 1 /\ restartReads[r] = 0
    /\ rhsCalled[r] /\ evolves[r] > 0
----------------------------------------------------------------------------
(* Dengo primordial chemistry kernels: arithmetic.                          *)
(*                                                                          *)
(* Doubles are modelled as exact integers in fixed-point units together     *)
(* with the IEEE special values NaN, +inf and -inf.  The temperature table  *)
(* is scaled down: it has TableSize entries and spans [1, 2^nbins], so one  *)
(* bin is a factor of two in temperature and log() is taken piecewise       *)
(* linear between the bin boundaries.                                       *)

\* entries of every rate table (1024 in the sources)
TableSize == 4
\* iterations of the temperature Newton loop
NewtonIterations == 10

RECURSIVE Pow2(_)
Pow2(n) == IF n <= 0 THEN 1 ELSE 2 * Pow2(n - 1)

\* data->nbins = 1024 - 1
nbins == TableSize - 1
\* data->bounds[0], data->bounds[1]
bounds0 == 1
bounds1 == Pow2(nbins)

\* IEEE values
Fin(n) == [fp |-> "finite", v |-> n]
NaN == [fp |-> "nan", v |-> 0]
PosInf == [fp |-> "inf", v |-> 1]
NegInf == [fp |-> "inf", v |-> -1]
IsFin(x) == x.fp = "finite"

\* a / b for finite a, b; the quotient is rounded down
Quot(a, b) ==
  IF b = 0 THEN (IF a = 0 THEN NaN ELSE IF a > 0 THEN PosInf ELSE NegInf)
  ELSE IF b > 0 THEN Fin(a \div b)
  ELSE Fin((-a) \div (-b))

\* fixed-point unit of gamma - 1 and of 1/(gamma - 1): 2/3 and 2/5 are exact
GUnit == 2 * 3 * 5
\* fixed-point unit of the interpolation fraction Tdef and of dgamma/dT
FracUnit == Pow2(nbins)

\* species slots of a cell: H2_1 H2_2 H_1 H_2 H_m0 He_1 He_2 He_3 de ge
Species == 0..(NSPECIES - 1)

\* double density = 2.0*H2_1 + 2.0*H2_2 + 1.00794*(H_1 + H_2 + H_m0)
\*                  + 4.002602*(He_1 + He_2 + He_3), atomic weights rounded
Density(y) ==
  2 * y[0] + 2 * y[1] + y[2] + y[3] + y[4] + 4 * y[5] + 4 * y[6] + 4 * y[7]

\* the values the conversion (int)(idbin*(log(Ts) - lb)) can produce: the
\* truncated bin number for a positive finite temperature; converting NaN or
\* an infinity is undefined, any int may result
RECURSIVE ILog2(_)
ILog2(t) == IF t < 2 THEN 0 ELSE 1 + ILog2(t \div 2)

RawBins(T) ==
  IF IsFin(T) /\ T.v >= 1 THEN {ILog2(T.v)}
  ELSE (-(nbins + 2))..(nbins + 2)

\* if (bin_id <= 0) bin_id = 0; else if (bin_id >= nbins) bin_id = nbins - 1;
ClampBinAtNbins(b) == IF b <= 0 THEN 0 ELSE IF b >= nbins THEN nbins ELSE b
ClampBin(b) == IF b <= 0 THEN 0 ELSE IF b >= nbins THEN nbins - 1 ELSE b

\* Tdef = (log(Ts) - t1)/(t2 - t1) in FracUnit, for the clamped bin
Tdef(T, bin) ==
  IF ~IsFin(T) THEN NaN
  ELSE IF T.v < 0 THEN NaN
  ELSE IF T.v = 0 THEN NegInf
  ELSE Fin(((T.v - Pow2(bin)) * FracUnit) \div Pow2(bin))

\* the tables: gamma - 1 of molecular hydrogen falls from 2/3 towards 2/5
\* with temperature, a reaction rate grows with it
g_gammaH2_1 == [b \in 0..nbins |-> MaxOf({12, 20 - 2 * b})]
g_gammaH2_2 == [b \in 0..nbins |-> MaxOf({12, 20 - b})]
g_dgammaH2_1_dT == [b \in 0..nbins |-> -((2 * FracUnit) \div Pow2(b))]
g_dgammaH2_2_dT == [b \in 0..nbins |-> -(FracUnit \div Pow2(b))]
r_k01 == [b \in 0..nbins |-> b * b + 1]

\* table[bin_id] + Tdef*(table[bin_id+1] - table[bin_id]), in units of
\* 1/FracUnit of the table's unit; an entry read from outside the stored
\* table has no defined value
Interpolate(table, bin, frac) ==
  IF IsFin(frac) /\ {bin, bin + 1} \subseteq DOMAIN table
  THEN Fin(table[bin] * FracUnit + frac.v * (table[bin + 1] - table[bin]))
  ELSE NaN

\* 1.0/(gamma - 1), in GUnit, from an interpolated gamma - 1
InvGammaM1(gm1) ==
  IF IsFin(gm1) THEN Quot(GUnit * GUnit * FracUnit, gm1.v) ELSE NaN

\* _gamma_m1 = 1.0/(gamma - 1) with gamma = 5/3, in GUnit
gamma_m1_inv == (3 * GUnit) \div 2

\* One pass of the Newton loop of cvklu_calculate_temperature at iterate T.
\* Returns Tnew = T - dge/dge_dT and dTs = 1.0/dge_dT (in FracUnit).
\* Where the conversion to int is undefined the fraction is not finite, so
\* the pass yields NaN whichever bin results.
NewtonPass(y, T) ==
  LET bin  == ClampBin(CHOOSE b \in RawBins(T) : TRUE)
      frac == Tdef(T, bin)
      G1   == InvGammaM1(Interpolate(g_gammaH2_1, bin, frac))
      G2   == InvGammaM1(Interpolate(g_gammaH2_2, bin, frac))
      dg1  == Interpolate(g_dgammaH2_1_dT, bin, frac)
      dg2  == Interpolate(g_dgammaH2_2_dT, bin, frac)
      D    == Density(y)
  IN
  IF ~IsFin(T) \/ ~IsFin(frac) \/ ~IsFin(G1) \/ ~IsFin(G2) THEN
    \* NaN or an infinity enters every product
    [Tnew |-> NaN, dTs |-> NaN]
  ELSE
    LET \* sum of n/(gamma - 1) over the species, in GUnit
        S   == y[0] * G1.v + y[1] * G2.v
               + gamma_m1_inv * (y[2] + y[3] + y[4] + y[5] + y[6] + y[7] + y[8])
        \* its derivative with respect to T, in GUnit
        Sp  == Quot(-(y[0] * G1.v * G1.v * dg1.v + y[1] * G2.v * G2.v * dg2.v),
                    GUnit * GUnit * FracUnit * FracUnit).v
        \* dge = T*kb*S/(density*mh) - ge and dge_dT = kb*(T*Sp + S)/(density*mh)
        \* over the common denominator density*GUnit (kb/mh = 1)
        num == T.v * S - y[9] * D * GUnit
        den == T.v * Sp + S
    IN
    IF D = 0 THEN
      \* both quotients divide by zero: dge/dge_dT is NaN
      [Tnew |-> NaN, dTs |-> IF den = 0 THEN NaN ELSE Fin(0)]
    ELSE
      LET step == Quot(num, den) IN
      [Tnew |-> IF IsFin(step) THEN Fin(T.v - step.v)
                ELSE IF step = NaN THEN NaN
                ELSE IF step = PosInf THEN NegInf ELSE PosInf,
       dTs  |-> Quot(GUnit * D * FracUnit, den)]

\* for (int j=0; j<10; j++) { T = Ts; ...; Ts = Tnew; }: the iterates the
\* loop starts its passes with, first to last, from the seed
RECURSIVE NewtonIterates(_, _, _)
NewtonIterates(y, seed, j) ==
  IF j = 0 THEN << >>
  ELSE CHOOSE its \in {<<seed>> \o NewtonIterates(y, Tnew, j - 1) :
                          Tnew \in {NewtonPass(y, seed).Tnew}} : TRUE

\* if (Ts < bounds[0]) Ts = bounds[0]; else if (Ts > bounds[1]) Ts = bounds[1];
\* every comparison with NaN is false
ClampTs(T) ==
  IF T = NaN THEN NaN
  ELSE IF T = NegInf THEN Fin(bounds0)
  ELSE IF T = PosInf THEN Fin(bounds1)
  ELSE IF T.v < bounds0 THEN Fin(bounds0)
  ELSE IF T.v > bounds1 THEN Fin(bounds1)
  ELSE T

\* cvklu_calculate_temperature(data, y_arr, i, Ts, dTs_ge): the new values of
\* the two reference arguments and the temperatures looked up on the way
cvklu_calculate_temperature(y, seed) ==
  CHOOSE out \in
    UNION {{[Ts     |-> ClampTs(last.Tnew),
             dTs_ge |-> last.dTs,
             looked |-> {its[j] : j \in 1..NewtonIterations}] :
               last \in {NewtonPass(y, its[NewtonIterations])}} :
            its \in {NewtonIterates(y, seed, NewtonIterations)}} : TRUE

----------------------------------------------------------------------------
(* Dengo primordial chemistry kernels: the calls and their work items *)

\* #define NSPARSE 64
NSPARSE == 64

nstrip == NCells
Cells == 0..(nstrip - 1)

\* a cell with the given H2_1, H2_2, H_1 and ge, every other species zero
CellState(H2_1, H2_2, H_1, ge) ==
  [k \in Species |-> CASE k = 0 -> H2_1 [] k = 1 -> H2_2 [] k = 2 -> H_1
                       [] k = 9 -> ge [] OTHER -> 0]

\* the cell states a call may be handed: cold atomic gas, atomic gas hotter
\* than the table, partly molecular gas, an empty cell, a cell with a
\* negative species density, a cell with negative internal energy
CellStates ==
  { CellState(0, 0, 2, 3), CellState(0, 0, 2, 3 * bounds1),
    CellState(2, 0, 1, 4), CellState(0, 0, 0, 0),
    CellState(0, 0, -1, 3), CellState(0, 0, 2, -3) }

\* the state vectors a call may be handed: cell 0 holds any of the cell
\* states, the other cells hold atomic gas, cold or hotter than the table
StateVectors ==
  {c \in [Cells -> CellStates] :
     \A i \in Cells \ {0} :
       c[i] \in {CellState(0, 0, 2, 3), CellState(0, 0, 2, 3 * bounds1)}}

\* y_arr[k] = ydata[j+k]*data->scale[j+k] with j = i*NSPECIES
y_arr(yd, i) == [k \in Species |-> yd[i * NSPECIES + k]]

\* Ts_dev[i] = 1000.0: a seed inside the table
Ts_default == Fin(Pow2(nbins - 1))

\* contents of malloc'ed workspace that was never written
Garbage == {Fin(7), NaN}

\* value of an output entry that was never written
Unset == << >>

\* data->rs_k01[i] and data->drs_k01[i] from the clamped temperature T
InterpolatedRate(T) ==
  LET bin == ClampBin(CHOOSE b \in RawBins(T) : TRUE)
  IN Interpolate(r_k01, bin, Tdef(T, bin))

RateDerivative(T) ==
  LET bin == ClampBin(CHOOSE b \in RawBins(T) : TRUE)
  IN IF IsFin(T) /\ {bin, bin + 1} \subseteq DOMAIN r_k01
     THEN Quot((r_k01[bin + 1] - r_k01[bin]) * FracUnit, T.v)
     ELSE NaN

\* the values data->Ts[i] can hold between calls: the default, a clamped
\* temperature, or NaN
StoredTemperatures == {Fin(t) : t \in bounds0..bounds1} \cup {NaN}

\* what one RHS work item computes for a cell with state y from the seed:
\* the temperature solve, then the rate lookup at the clamped temperature
RhsItemValues(y, seed) ==
  CHOOSE v \in
    {[Ts |-> temp.Ts, dTs_ge |-> temp.dTs_ge,
      rs_k01 |-> InterpolatedRate(temp.Ts),
      drs_k01 |-> RateDerivative(temp.Ts),
      looked |-> temp.looked \cup {temp.Ts}] :
        temp \in {cvklu_calculate_temperature(y, seed)}} : TRUE

\* an entry of ydot: an expression in the cell's state, its temperature and
\* its interpolated rates
RhsEntry(y, v) == <<y, v.Ts, v.rs_k01>>

\* an entry of the Jacobian: an expression in the cell's state and the
\* temperature, dT/dge, rates and rate derivatives read from the workspace
JacEntry(y, T, Tge, k01, rk01) == <<y, T, Tge, k01, rk01>>

\* Accesses of a work item, as index ranges <<array, first, last>>.
\* what one RHS work item reads and writes
RhsReads(i) ==
  {<<a, i * NSPECIES, i * NSPECIES + NSPECIES - 1>> :
      a \in {"ydata", "scale", "inv_scale"}}
  \cup {<<a, i, i>> : a \in {"Ts", "mdensity", "inv_mdensity",
                             "cie_optical_depth_approx", "h2_optical_depth_approx"}}

RhsWritesNoRates(i) ==
  {<<a, i, i>> : a \in {"Ts", "dTs_ge"}}
  \cup {<<"ydotdata", i * NSPECIES, i * NSPECIES + NSPECIES - 1>>}
RhsWrites(i) ==
  {<<a, i, i>> : a \in {"Ts", "dTs_ge", "rs_k01", "drs_k01"}}
  \cup {<<"ydotdata", i * NSPECIES, i * NSPECIES + NSPECIES - 1>>}

\* what one Jacobian work item reads and writes
JacReads(i) ==
  {<<a, i * NSPECIES, i * NSPECIES + NSPECIES - 1>> :
      a \in {"ydata", "scale", "inv_scale"}}
  \cup {<<a, i, i>> : a \in {"Ts", "dTs_ge", "rs_k01", "drs_k01", "mdensity",
                             "cie_optical_depth_approx", "h2_optical_depth_approx"}}

JacWritesEveryEnd(i) ==
  {<<a, i * NSPARSE, i * NSPARSE + NSPARSE - 1>> : a \in {"matrix_data", "colvals"}}
  \cup {<<"rowptrs", i * NSPECIES, i * NSPECIES + NSPECIES>>}
JacWrites(i) ==
  {<<a, i * NSPARSE, i * NSPARSE + NSPARSE - 1>> : a \in {"matrix_data", "colvals"}}
  \cup {<<"rowptrs", i * NSPECIES, i * NSPECIES + NSPECIES - 1>>}
  \cup (IF i = nstrip - 1
        THEN {<<"rowptrs", nstrip * NSPECIES, nstrip * NSPECIES>>} ELSE {})

\* the access set W includes element idx of array a
Covers(W, a, idx) == \E w \in W : w[1] = a /\ w[2] <= idx /\ idx <= w[3]

\* colvals[i*NSPARSE + k] = i*NSPECIES + ColumnOf[k+1]
ColumnOf ==
  <<0, 1, 2, 3, 4, 8, 9,   0, 1, 2, 3, 4, 8, 9,   0, 1, 2, 3, 4, 8, 9,
    0, 1, 2, 3, 4, 8, 9,   1, 2, 3, 4, 8, 9,      5, 6, 8, 9,
    5, 6, 7, 8, 9,         6, 7, 8, 9,            1, 2, 3, 4, 5, 6, 7, 8, 9,
    0, 2, 3, 5, 6, 7, 8, 9>>

\* row starts that leave row 8 of a cell without entries
RowStartEmptyRow == <<0, 7, 14, 21, 28, 34, 38, 43, 47, 47>>

\* rowptrs[i*NSPECIES + r] = i*NSPARSE + RowStart[r+1]
RowStart == <<0, 7, 14, 21, 28, 34, 38, 43, 47, 56>>

RowptrValue(i, idx) ==
  IF idx - i * NSPECIES < NSPECIES
  THEN i * NSPARSE + RowStart[idx - i * NSPECIES + 1]
  ELSE nstrip * NSPARSE

StateIndex == 0..(nstrip * NSPECIES - 1)
ValueIndex == 0..(nstrip * NSPARSE - 1)
RowIndex == 0..(nstrip * NSPECIES)

\* the state cvklu_setup_data leaves: every Ts[i] at its default, the other
\* workspace slots allocated but not written; no call has been made
ChemInit ==
  /\ LSIdle
  /\ DriverIdle
  /\ AuxIdle
  /\ kphase = "idle"
  /\ ncalls = 0
  /\ pending = {}
  /\ ydata = [idx \in StateIndex |-> 0]
  /\ Ts = [i \in Cells |-> Ts_default]
  /\ \E g \in Garbage :
       /\ dTs_ge = [i \in Cells |-> g]
       /\ rs_k01 = [i \in Cells |-> g]
       /\ drs_k01 = [i \in Cells |-> g]
  /\ ydotdata = [idx \in StateIndex |-> Unset]
  /\ matrix_data = [idx \in ValueIndex |-> Unset]
  /\ colvals = [idx \in ValueIndex |-> 0]
  /\ rowptrs = [idx \in RowIndex |-> 0]
  /\ kstatus = 0
  /\ looked = {}
  /\ wrote = [i \in Cells |-> {}]
  /\ readl = [i \in Cells |-> {}]
  /\ rhsSeen = [i \in Cells |-> FALSE]
  /\ lastY = [i \in Cells |-> CellState(0, 0, 0, 0)]
  /\ lastSeed = [i \in Cells |-> Ts_default]

\* a caller enters a kernel with a state vector
EnterKernel(kind) ==
  /\ kphase = "idle"
  /\ ncalls < MaxCalls
  /\ \E c \in StateVectors :
       ydata' = [idx \in StateIndex |-> c[idx \div NSPECIES][idx % NSPECIES]]
  /\ kphase' = kind
  /\ ncalls' = ncalls + 1
  /\ pending' = Cells
  /\ looked' = {}
  /\ wrote' = [i \in Cells |-> {}]
  /\ readl' = [i \in Cells |-> {}]

\* calculate_rhs_cvklu: entry
RhsBegin ==
  /\ EnterKernel("rhs")
  /\ ydotdata' = [idx \in StateIndex |-> Unset]
  /\ UNCHANGED <<Ts, dTs_ge, rs_k01, drs_k01, matrix_data, colvals, rowptrs,
                 kstatus, rhsSeen, lastY, lastSeed>>

\* calculate_rhs_cvklu: the body of the RAJA::forall for cell i
RhsItem(i) ==
  /\ kphase = "rhs"
  /\ i \in pending
  /\ \E y \in {y_arr(ydata, i)}, W \in {RhsWrites(i)} :
     \E v \in {RhsItemValues(y, Ts[i])} :
     /\ Ts' = [c \in Cells |-> IF Covers(W, "Ts", c) THEN v.Ts ELSE Ts[c]]
     /\ dTs_ge' = [c \in Cells |-> IF Covers(W, "dTs_ge", c) THEN v.dTs_ge ELSE dTs_ge[c]]
     /\ rs_k01' = [c \in Cells |-> IF Covers(W, "rs_k01", c) THEN v.rs_k01 ELSE rs_k01[c]]
     /\ drs_k01' = [c \in Cells |-> IF Covers(W, "drs_k01", c) THEN v.drs_k01 ELSE drs_k01[c]]
     /\ ydotdata' = [idx \in StateIndex |->
                       IF Covers(W, "ydotdata", idx) THEN RhsEntry(y, v) ELSE ydotdata[idx]]
     /\ looked' = looked \cup v.looked
     /\ wrote' = [wrote EXCEPT ![i] = W]
     /\ readl' = [readl EXCEPT ![i] = RhsReads(i)]
     /\ rhsSeen' = [rhsSeen EXCEPT ![i] = TRUE]
     /\ lastY' = [lastY EXCEPT ![i] = y]
     /\ lastSeed' = [lastSeed EXCEPT ![i] = Ts[i]]
  /\ pending' = pending \ {i}
  /\ UNCHANGED <<kphase, ncalls, ydata, matrix_data, colvals, rowptrs, kstatus>>

\* a kernel returns: -1 after a device error, 0 otherwise
LeaveKernel(kind) ==
  /\ kphase = kind
  /\ pending = {}
  /\ \E cuerr \in BOOLEAN : kstatus' = calculate_status(cuerr)
  /\ kphase' = "idle"
  /\ UNCHANGED <<ncalls, pending, ydata, Ts, dTs_ge, rs_k01, drs_k01, ydotdata,
                 matrix_data, colvals, rowptrs, looked, wrote, readl, rhsSeen,
                 lastY, lastSeed>>

\* calculate_rhs_cvklu: return
RhsEnd == LeaveKernel("rhs")

\* calculate_jacobian_cvklu: entry, SUNMatZero(J)
JacBegin ==
  /\ EnterKernel("jac")
  /\ matrix_data' = [idx \in ValueIndex |-> Unset]
  /\ colvals' = [idx \in ValueIndex |-> 0]
  /\ rowptrs' = [idx \in RowIndex |-> 0]
  /\ UNCHANGED <<Ts, dTs_ge, rs_k01, drs_k01, ydotdata, kstatus, rhsSeen,
                 lastY, lastSeed>>

\* calculate_jacobian_cvklu: the body of the RAJA::forall for cell i
JacItem(i) ==
  /\ kphase = "jac"
  /\ i \in pending
  /\ \E W \in {JacWrites(i)} :
     /\ matrix_data' = [idx \in ValueIndex |->
                          IF Covers(W, "matrix_data", idx)
                          THEN JacEntry(y_arr(ydata, i), Ts[i], dTs_ge[i],
                                        rs_k01[i], drs_k01[i])
                          ELSE matrix_data[idx]]
     /\ colvals' = [idx \in ValueIndex |->
                      IF Covers(W, "colvals", idx)
                      THEN i * NSPECIES + ColumnOf[idx - i * NSPARSE + 1]
                      ELSE colvals[idx]]
     /\ rowptrs' = [idx \in RowIndex |->
                      IF Covers(W, "rowptrs", idx) THEN RowptrValue(i, idx)
                      ELSE rowptrs[idx]]
     /\ wrote' = [wrote EXCEPT ![i] = W]
     /\ readl' = [readl EXCEPT ![i] = JacReads(i)]
  /\ pending' = pending \ {i}
  /\ UNCHANGED <<kphase, ncalls, ydata, Ts, dTs_ge, rs_k01, drs_k01, ydotdata,
                 kstatus, looked, rhsSeen, lastY, lastSeed>>

\* calculate_jacobian_cvklu: return
JacEnd == LeaveKernel("jac")

ChemFrame == UNCHANGED <<lsVars, drVars, auxVars>>

ChemNext ==
  \/ RhsBegin /\ ChemFrame
  \/ (\E i \in Cells : RhsItem(i)) /\ ChemFrame
  \/ RhsEnd /\ ChemFrame
  \/ JacBegin /\ ChemFrame
  \/ (\E i \in Cells : JacItem(i)) /\ ChemFrame
  \/ JacEnd /\ ChemFrame

SpecChem == ChemInit /\ [][ChemNext]_vars

----------------------------------------------------------------------------
(* Claims about the chemistry kernels *)

\* work item i of the running call of the given kind has run
ItemDone(kind, i) == kphase = kind /\ i \notin pending

\* a call has returned, and the state it was given has a cell of negative
\* mixture density
ReturnedWithNegativeDensity ==
  /\ kphase = "idle"
  /\ ncalls > 0
  /\ \E i \in Cells : Density(y_arr(ydata, i)) < 0

\* C5: a chemistry RHS or Jacobian evaluation whose state has a cell of
\* negative mixture density returns a recoverable-failure (positive) status.
\* The kernels never test the density and return 0, or -1 after a device
\* error.
CexC5 == ReturnedWithNegativeDensity => kstatus > 0

\* C6: the result of an RHS evaluation is a function of the state passed to
\* the call alone: whatever calls came before, each cell's RHS entries are
\* the ones the evaluation yields on a workspace no call has touched.
\* data->Ts[i] is the seed of the next temperature solve, and a NaN left
\* there by one call makes the result of every later call NaN.
CexC6 ==
  \A i \in Cells :
    ItemDone("rhs", i) =>
      ydotdata[i * NSPECIES] =
        RhsEntry(y_arr(ydata, i), RhsItemValues(y_arr(ydata, i), Ts_default))

\* the Jacobian entries of cell i are built from the intermediates v
JacobianBuiltFrom(i, v) ==
  \A k \in 0..(NSPARSE - 1) :
    matrix_data[i * NSPARSE + k] =
      JacEntry(y_arr(ydata, i), v.Ts, v.dTs_ge, v.rs_k01, v.drs_k01)

Owns(i, a, idx) ==
  CASE a \in {"ydata", "scale", "inv_scale", "ydotdata"} -> idx \div NSPECIES = i
    [] a \in {"matrix_data", "colvals"} -> idx \div NSPARSE = i
    [] a = "rowptrs" ->
         \/ idx \div NSPECIES = i
         \/ i = nstrip - 1 /\ idx = nstrip * NSPECIES
    [] OTHER -> idx = i

\* every location the work items of the running call accessed is their own,
\* and no two of them wrote the same location
AccessesOwn ==
  /\ \A i \in Cells : \A w \in wrote[i] \cup readl[i] :
       \A idx \in w[2]..w[3] : Owns(i, w[1], idx)
  /\ \A i, k \in Cells :
       i # k => \A w \in wrote[i], u \in wrote[k] :
                  ~(w[1] = u[1] /\ w[2] <= u[3] /\ u[2] <= w[3])

\* the step of work item i leaves every location of another cell as it was,
\* so what the other items read and have written does not depend on whether
\* item i ran before them
ItemStepIsLocal ==
  \A i \in Cells :
    (kphase \in {"rhs", "jac"} /\ i \in pending /\ pending' = pending \ {i}) =>
      /\ ydata' = ydata
      /\ \A c \in Cells \ {i} :
           /\ Ts'[c] = Ts[c] /\ dTs_ge'[c] = dTs_ge[c]
           /\ rs_k01'[c] = rs_k01[c] /\ drs_k01'[c] = drs_k01[c]
           /\ \A k \in Species :
                /\ ydotdata'[c * NSPECIES + k] = ydotdata[c * NSPECIES + k]
                /\ rowptrs'[c * NSPECIES + k] = rowptrs[c * NSPECIES + k]
           /\ \A k \in 0..(NSPARSE - 1) :
                /\ matrix_data'[c * NSPARSE + k] = matrix_data[c * NSPARSE + k]
                /\ colvals'[c * NSPARSE + k] = colvals[c * NSPARSE + k]
      /\ i # nstrip - 1 => rowptrs'[nstrip * NSPECIES] = rowptrs[nstrip * NSPECIES]

\* C8: within one RHS or Jacobian call the work item of cell i reads and
\* writes only locations of cell i, no two work items write the same
\* location, and a work item changes nothing another one reads or writes, so
\* the items give the same result in any order.
InvC8 == []AccessesOwn /\ [][ItemStepIsLocal]_vars

\* a Jacobian call has run every work item, the last cell's included, which
\* closes the row pointers
WitC8 ==
  /\ kphase = "jac"
  /\ pending = {}
  /\ \A i \in Cells : wrote[i] # {}
  /\ rowptrs[nstrip * NSPECIES] = nstrip * NSPARSE

\* C9: for every temperature used in a table lookup, the unclamped Newton
\* iterates included, whatever the conversion to int yields, the clamped bin
\* lies in [0, nbins-1] and entries bin and bin+1 are inside every table.
InvC9 ==
  \A T \in looked : \A raw \in RawBins(T) :
    /\ ClampBin(raw) \in 0..(nbins - 1)
    /\ \A table \in {g_gammaH2_1, g_gammaH2_2, g_dgammaH2_1_dT,
                       g_dgammaH2_2_dT, r_k01} :
         {ClampBin(raw), ClampBin(raw) + 1} \subseteq DOMAIN table

\* a call has looked up an iterate above the table and one that is not finite
WitC9 ==
  \E T1, T2 \in looked : IsFin(T1) /\ T1.v > bounds1 /\ ~IsFin(T2)

\* C10: for every temperature looked up the interpolation fraction lies in
\* [0, 1], and at the first and the last bin boundary the interpolated value
\* is the first and the last stored value exactly.  The Newton loop looks
\* its tables up at unclamped iterates, whose fraction lies outside [0, 1].
CexC10 ==
  \A T \in looked : \A raw \in RawBins(T) :
    LET bin  == ClampBin(raw)
        frac == Tdef(T, bin)
    IN /\ IsFin(frac) /\ 0 <= frac.v /\ frac.v <= FracUnit
       /\ T = Fin(bounds0) =>
            Interpolate(r_k01, bin, frac) = Fin(r_k01[0] * FracUnit)
       /\ T = Fin(bounds1) =>
            Interpolate(r_k01, bin, frac) = Fin(r_k01[nbins] * FracUnit)

----------------------------------------------------------------------------
(* The matrix-free operator ATimes_BDMPIMV and the RHS cache of fimpl.      *)
(*                                                                          *)
(* The chemistry sub-block is one entry.  The state is counted in halves,   *)
(* the error weight is 1 or 2, so that y + sig*v is again a state.          *)

MaxState == 3
MaxDQ == 3

\* states of the chemistry sub-block, in halves
SubStates == 0..MaxState
\* udata->TimeUnits, the integrator's gamma, its error weights
TimeUnitsValues == {1, 2}
GammaValues == {1, 2}
Weights == {1, 2}
\* the vectors the block solver hands to the operator: never zero
Directions == {-2, -1, 1, 2}

Abs(x) == IF x < 0 THEN -x ELSE x
Sign(x) == IF x < 0 THEN -1 ELSE IF x > 0 THEN 1 ELSE 0

\* one entry of the chemistry RHS as calculate_rhs_cvklu returns it, before
\* the scaling by TimeUnits: some nonlinear function of the state
fchem(y) == 6 - y * y

\* N_VWrmsNorm(v, w) of a vector of length one
N_VWrmsNorm(v, w) == Abs(v * w)

\* work = y + sig*v with sig = ONE / N_VWrmsNorm(v, w), in halves
Perturbed(y, v, w) == y + Sign(v) * (2 \div w)

\* fimpl: what is saved in udata->fchemcur, N_VScale(TimeUnits, wchemdot,
\* wchemdot) followed by N_VScale(ONE, wchemdot, udata->fchemcur)
SavedRhsUnscaled(tu, fy) == fy
SavedRhs(tu, fy) == tu * fy

\* ATimes_BDMPIMV: z = fchem(y + sig*v); z *= TimeUnits;
\* z = siginv*z - siginv*fchemcur; z = v - gamma*z
ATimesResult(y, v, w, g, tu, saved) ==
  LET siginv == N_VWrmsNorm(v, w)
      z1 == tu * fchem(Perturbed(y, v, w))
      z2 == siginv * z1 - siginv * saved
  IN v - g * z2

\* if (udata->fchemcur) N_VScale(ONE, wchemdot, udata->fchemcur), fchemcur
\* being a vector exactly when the solver was built with opts.iterative
SaveRhsAlways(it, old, new) == new
SaveRhs(it, old, new) == IF it THEN new ELSE old

\* the state SUNLinSol_BDMPIMV leaves.  With opts.iterative fchemcur is a
\* clone whose contents are not initialised; without, it is NULL (no vector,
\* kept as 0) and the operator is not attached.  No RHS has been evaluated
ATimesInit ==
  /\ LSIdle /\ DriverIdle /\ ChemIdle /\ RestartIdle /\ LateIdle
  /\ apc = "ready"
  /\ TimeUnits \in TimeUnitsValues
  /\ ycur = 0
  /\ gamma \in GammaValues
  /\ ewt \in Weights
  /\ resid = FALSE
  /\ iterative \in BOOLEAN
  /\ fchemcur \in (IF iterative THEN {0, 7} ELSE {0})
  /\ nfeDQ = 0
  /\ vvec = 0 /\ zvec = 0 /\ atret = 0
  /\ callee = "none"

\* the integrator moves on to another stage or step: new gamma and weights
NewStage ==
  /\ apc = "ready"
  /\ gamma' \in GammaValues
  /\ ewt' \in Weights
  /\ resid' = FALSE
  /\ UNCHANGED <<apc, TimeUnits, ycur, fchemcur, nfeDQ, vvec, zvec, atret,
                 iterative, callee>>

\* fimpl called by the integrator at state y: on success the scaled RHS is
\* saved; a failing calculate_rhs_cvklu returns before that and ends the
\* solve.  The call is the evaluation of the nonlinear residual when the
\* integrator has made y its current state.
Fimpl(y, residual) ==
  /\ apc = "ready"
  /\ \E cuerr \in BOOLEAN :
       IF calculate_status(cuerr) # 0
       THEN /\ apc' = "failed"
            /\ resid' = FALSE
            /\ UNCHANGED fchemcur
       ELSE /\ fchemcur' = SaveRhs(iterative, fchemcur,
                                   SavedRhs(TimeUnits, fchem(y)))
            /\ resid' = residual
            /\ UNCHANGED apc
  /\ ycur' = IF residual THEN y ELSE ycur
  /\ callee' = "fimpl"
  /\ UNCHANGED <<TimeUnits, gamma, ewt, nfeDQ, vvec, zvec, atret, iterative>>

\* ATimes_BDMPIMV(A_data, v, z), called by the block solver during the
\* linear solve that follows the residual evaluation
ATimes_BDMPIMV(v) ==
  /\ apc = "ready"
  /\ iterative
  /\ resid
  /\ callee' = "ATimes"
  /\ nfeDQ < MaxDQ
  /\ vvec' = v
  /\ \E outcome \in {"getter", "rhs", "stop", "ok"} :
       CASE outcome = "getter" ->
              \* a getter or the timer start failed: return(-1)
              /\ atret' = -1
              /\ UNCHANGED <<zvec, nfeDQ>>
         [] outcome = "rhs" ->
              \* calculate_rhs_cvklu failed: return(retval), z as it left it
              /\ atret' = calculate_status(TRUE)
              /\ zvec' = fchem(Perturbed(ycur, v, ewt))
              /\ nfeDQ' = nfeDQ + 1
         [] outcome = "stop" ->
              \* the timer stop failed: return(-1)
              /\ atret' = -1
              /\ zvec' = ATimesResult(ycur, v, ewt, gamma, TimeUnits, fchemcur)
              /\ nfeDQ' = nfeDQ + 1
         [] OTHER ->
              /\ atret' = 0
              /\ zvec' = ATimesResult(ycur, v, ewt, gamma, TimeUnits, fchemcur)
              /\ nfeDQ' = nfeDQ + 1
  /\ apc' = IF atret' = 0 THEN "ready" ELSE "failed"
  /\ UNCHANGED <<TimeUnits, ycur, gamma, ewt, resid, fchemcur, iterative>>

\* the integrator calls Jimpl, fexpl or PostprocessStep: none of them has a
\* statement that refers to udata->fchemcur
OtherCallbacks == {"Jimpl", "fexpl", "PostprocessStep"}
Callback(c) ==
  /\ apc = "ready"
  /\ callee' = c
  /\ \E ok \in BOOLEAN : apc' = IF ok THEN "ready" ELSE "failed"
  /\ UNCHANGED <<TimeUnits, ycur, gamma, ewt, resid, fchemcur, nfeDQ, vvec,
                 zvec, atret, iterative>>

ATimesFrame == UNCHANGED <<lsVars, drVars, chVars, rsVars, lateVars>>

ATimesNext ==
  \/ NewStage /\ ATimesFrame
  \/ (\E y \in SubStates, residual \in BOOLEAN : Fimpl(y, residual)) /\ ATimesFrame
  \/ (\E v \in Directions : ATimes_BDMPIMV(v)) /\ ATimesFrame
  \/ (\E c \in OtherCallbacks : Callback(c)) /\ ATimesFrame

SpecATimes == ATimesInit /\ [][ATimesNext]_vars

\* C13: a successful call of the matrix-free operator on v returns
\* z = v - gamma*(f(y + sigma*v) - f(y))/sigma, with y the integrator's
\* current state, sigma = 1/||v|| in the error-weighted norm and both RHS
\* terms scaled by TimeUnits: the saved RHS it uses is that of y.
InvC13 ==
  [][(nfeDQ' = nfeDQ + 1 /\ atret' = 0) =>
       /\ fchemcur = TimeUnits * fchem(ycur)
       /\ zvec' = vvec' - gamma * N_VWrmsNorm(vvec', ewt)
                             * (TimeUnits * fchem(Perturbed(ycur, vvec', ewt))
                                - TimeUnits * fchem(ycur))]_vars

\* the operator has been applied with success more than once, with
\* TimeUnits other than one, and has changed its argument
WitC13 ==
  /\ atret = 0 /\ nfeDQ >= 2
  /\ TimeUnits = 2
  /\ zvec # vvec

----------------------------------------------------------------------------
(* A run of main() on the root process, the restart parameter file its      *)
(* outputs write, and the runs restarted from that file.  Times are counted *)
(* in units of 1/TimeGrain of the original output interval.                 *)

MaxOutputs == 3
MaxGeneration == 2
TimeGrain == 2 * 3

\* write_parameters(tcur, hcur, iout, udata, opts): the parameters as the
\* run holds them, except t0, nout and restart
write_parameters(tnow, number, p) ==
  [p EXCEPT !.t0 = tnow, !.nout = p.nout - number, !.restart = number]

\* dTout = (udata.tf - udata.t0)/udata.nout
OutputInterval(p) == (p.tf - p.t0) \div p.nout

\* the original run: parameters as load_inputs returns them without a
\* restart, the output interval being TimeGrain
RestartInit ==
  /\ LSIdle /\ DriverIdle /\ ChemIdle /\ ATimesIdle /\ LateIdle
  /\ rphase = "begin"
  /\ \E no \in 0..MaxOutputs, fs \in {0, 1}, ht \in {0, 1} :
       /\ params = [t0 |-> 0, tf |-> TimeGrain * (IF no = 0 THEN 1 ELSE no),
                    nout |-> no, restart |-> -1, fixedstep |-> fs,
                    htrans |-> ht, hmax |-> 1]
       /\ original = [t0 |-> 0, nout |-> no, dTout |-> TimeGrain]
  /\ paramFile = << >> /\ fileFrom = << >>
  /\ loopOutputs = << >>
  /\ rNoOutput = 0 /\ riout = 0 /\ rt = 0 /\ rtout = 0
  /\ generation = 0 /\ startedAt = 0 /\ transients = 0

\* main up to the initial state: NoOutput, the configuration checks with the
\* update of fixedstep, initial_conditions or read_restart
RunBegin ==
  /\ rphase = "begin"
  /\ LET p1 == IF params.nout <= 0 THEN [params EXCEPT !.nout = 1] ELSE params
         p2 == [p1 EXCEPT !.fixedstep =
                  IF p1.fixedstep # 0 /\ p1.htrans > 0 THEN 2 ELSE p1.fixedstep]
     IN
     /\ rNoOutput' = IF params.nout <= 0 THEN 1 ELSE 0
     /\ IF FixedStepWithoutHmax(p1) THEN
          rphase' = "aborted" /\ params' = p1
        ELSE IF HtransTooLong(p2, p2) THEN
          rphase' = "aborted" /\ params' = p2
        ELSE
          /\ rphase' = "initial"
          /\ params' = [p2 EXCEPT !.restart = IF FreshRun(p2.restart) THEN 0 ELSE @]
  /\ UNCHANGED <<riout, rt, rtout, loopOutputs, paramFile, fileFrom, generation,
                 startedAt, transients, original>>

\* output_solution(tcur, w, hcur, iout, udata, opts) unless NoOutput: it
\* rewrites the restart parameter file
OutputSolution(tnow, number) ==
  IF rNoOutput = 0
  THEN /\ paramFile' = write_parameters(tnow, number, params)
       /\ fileFrom' = [generation |-> generation, number |-> number]
  ELSE UNCHANGED <<paramFile, fileFrom>>

\* t = t0, tout = t0 + dTout, initial batch of outputs
RunInitialOutput ==
  /\ rphase = "initial"
  /\ OutputSolution(params.t0, params.restart)
  /\ rt' = params.t0
  /\ rtout' = params.t0 + OutputInterval(params)
  /\ rphase' = IF params.fixedstep = 2 THEN "transient" ELSE "loop"
  /\ riout' = params.restart
  /\ UNCHANGED <<params, rNoOutput, loopOutputs, generation, startedAt,
                 transients, original>>

\* initial transient evolution to t0 + htrans; then tout = t0 + dTout
RunTransient ==
  /\ rphase = "transient"
  /\ rt' = params.t0 + params.htrans
  /\ transients' = transients + 1
  /\ rphase' = "loop"
  /\ UNCHANGED <<params, rNoOutput, riout, rtout, loopOutputs, paramFile,
                 fileFrom, generation, startedAt, original>>

\* one pass of the main loop: evolve to tout, advance tout, output iout+1
RunLoop ==
  /\ rphase = "loop"
  /\ riout < params.restart + params.nout
  /\ rt' = rtout
  /\ rtout' = MinOf({rtout + OutputInterval(params), params.tf})
  /\ loopOutputs' = Append(loopOutputs, <<riout + 1, rtout>>)
  /\ OutputSolution(rtout, riout + 1)
  /\ riout' = riout + 1
  /\ UNCHANGED <<rphase, params, rNoOutput, generation, startedAt, transients,
                 original>>

\* the main loop is over: main returns
RunFinish ==
  /\ rphase = "loop"
  /\ riout >= params.restart + params.nout
  /\ rphase' = "done"
  /\ UNCHANGED <<params, rNoOutput, riout, rt, rtout, loopOutputs, paramFile,
                 fileFrom, generation, startedAt, transients, original>>

\* the run has ended or is stopped where it is, and a new run is started
\* with the restart parameter file as its input
RestartRun ==
  /\ rphase # "none"
  /\ paramFile # << >>
  /\ generation < MaxGeneration
  /\ params' = paramFile
  /\ rphase' = "begin"
  /\ generation' = generation + 1
  /\ startedAt' = paramFile.restart
  /\ loopOutputs' = << >>
  /\ transients' = 0
  /\ UNCHANGED <<rNoOutput, riout, rt, rtout, paramFile, fileFrom, original>>

RestartFrame == UNCHANGED <<lsVars, drVars, chVars, atVars, lateVars>>

RestartNext ==
  \/ RunBegin /\ RestartFrame
  \/ RunInitialOutput /\ RestartFrame
  \/ RunTransient /\ RestartFrame
  \/ RunLoop /\ RestartFrame
  \/ RunFinish /\ RestartFrame
  \/ RestartRun /\ RestartFrame

SpecRestart == RestartInit /\ [][RestartNext]_vars

\* the outputs number first..last of the original, uninterrupted run
OriginalOutputs(first, last) ==
  [j \in 1..(last - first + 1) |->
     <<first + j - 1, original.t0 + (first + j - 1) * original.dTout>>]

\* C14: a run restarted from the file written at output number k of an
\* N-output run makes, by the time it returns, the outputs k+1..N at the
\* times of the uninterrupted run, also when the run that wrote the file was
\* itself a restart.  write_parameters subtracts the output number, counted
\* from the original start, from the number of outputs of the run that
\* writes, which a restarted run counts from its own start.
CexC14 ==
  (generation >= 1 /\ rphase = "done") =>
    loopOutputs = OriginalOutputs(startedAt + 1, original.nout)

\* C15: the restart parameter file records htrans = 0, and a restarted run
\* makes no transient evolve.  write_parameters writes opts.htrans and
\* opts.fixedstep as the run holds them.
CexC15 ==
  /\ paramFile # << >> => paramFile.htrans = 0
  /\ generation >= 1 => transients = 0

(***************************************************************************)
(* The state vector w, its unit scaling and the post-step callback         *)
(***************************************************************************)

\* local cells of the rank and entries of the chemistry sub-block per cell
PostCells == 2
MaxChem == 2

LocalCells == 1..PostCells
\* l = 0..nchem-1; the last entry, nchem-1, is the internal energy ge
ChemEntries == 0..(MaxChem - 1)
geEntry == MaxChem - 1
\* BUFIDX(l,i,j,k,nchem,nxl,nyl,nzl): the entry l of the cell
BUFIDX(l, c) == <<c, l>>

\* the total energy is kept in units of 1/EtUnit, so that ONE/EnergyUnits and
\* 0.5/rho are exact for the EnergyUnits and densities of PostInit
EtUnit == 2 * 2

\* apply_Dengo_scaling: every entry of the chemistry sub-block is multiplied
\* by its scale factor (code units -> physical units); the fluid fields are
\* not touched
apply_Dengo_scaling(wv, sc) ==
  [wv EXCEPT !.chem = [i \in DOMAIN wv.chem |-> wv.chem[i] * sc[i]]]

\* a scaling that is not undone by dividing
UnapplyAsApply(wv, sc) == apply_Dengo_scaling(wv, sc)

\* unapply_Dengo_scaling: every entry of the chemistry sub-block is divided
\* by its scale factor (physical units -> code units)
unapply_Dengo_scaling(wv, sc) ==
  [wv EXCEPT !.chem = [i \in DOMAIN wv.chem |-> wv.chem[i] \div sc[i]]]

\* realtype EUnitScale = ONE/udata->EnergyUnits
EUnitScale(eu) == EtUnit \div eu

\* the internal energy alone
InternalEnergyOnly(ge, eu, rho, mx, my, mz) == ge * EUnitScale(eu)

\* et[fidx] = chem[cidx] * EUnitScale
\*          + 0.5/rho[fidx]*(pow(mx[fidx],2) + pow(my[fidx],2) + pow(mz[fidx],2))
TotalEnergy(ge, eu, rho, mx, my, mz) ==
  ge * EUnitScale(eu) + ((EtUnit \div 2) \div rho) * (mx * mx + my * my + mz * mz)

\* the loop over the local cells, on a vector whose chemistry is scaled
UpdateEnergy(wv, eu) ==
  [wv EXCEPT !.et = [c \in LocalCells |->
     TotalEnergy(wv.chem[BUFIDX(geEntry, c)], eu,
                 wv.rho[c], wv.mx[c], wv.my[c], wv.mz[c])]]

\* fluid states of a cell: at rest, and moving along one or all axes
FluidSamples ==
  {[rho |-> 1, mx |-> 0, my |-> 0, mz |-> 0],
   [rho |-> 2, mx |-> 1, my |-> -1, mz |-> 2],
   [rho |-> 1, mx |-> 1, my |-> 0, mz |-> 2],
   [rho |-> 2, mx |-> 0, my |-> -1, mz |-> 0]}
FluidCells == [LocalCells -> FluidSamples]
\* per cell one value for the species and one for ge
ChemBlocks ==
  {[i \in LocalCells \X ChemEntries |->
      IF i[2] = geEntry THEN ge[i[1]] ELSE sp[i[1]]] :
     sp \in [LocalCells -> {1, 3}], ge \in [LocalCells -> {1, 3}]}
\* one factor per entry of a cell, the same in every cell
ScaleFactors ==
  {[i \in LocalCells \X ChemEntries |-> f[i[2]]] : f \in [ChemEntries -> {1, 2}]}

PostInit ==
  /\ LSIdle /\ DriverIdle /\ ChemIdle /\ ATimesIdle /\ RestartIdle
  /\ InputsIdle /\ SmokeIdle
  /\ ppc = "ready"
  /\ \E fl \in FluidCells, ch \in ChemBlocks :
       wstate = [rho |-> [c \in LocalCells |-> fl[c].rho],
                 mx |-> [c \in LocalCells |-> fl[c].mx],
                 my |-> [c \in LocalCells |-> fl[c].my],
                 mz |-> [c \in LocalCells |-> fl[c].mz],
                 et |-> [c \in LocalCells |-> 0],
                 chem |-> ch]
  /\ dscale \in ScaleFactors
  /\ EnergyUnits \in {1, 2}
  /\ inPhysical = FALSE
  /\ wBefore = wstate
  /\ wUnscaled = wstate
  /\ lastOp = "none"
  /\ ppret = 0
  /\ wdot = << >> /\ hydro = << >> /\ ppsite = "none"

\* the operation is not fexpl: no output vector is at hand
NoRhsCall == wdot' = << >> /\ hydro' = << >> /\ ppsite' = "none"

\* N_VConst(ZERO, wdot)
ZeroRates ==
  [et |-> [c \in LocalCells |-> 0],
   chem |-> [i \in LocalCells \X ChemEntries |-> 0]]

\* what a call of fEuler can leave in the total-energy and chemistry parts of
\* wdot (it advects the chemistry entries along with the fluid)
HydroRates ==
  {[et |-> [c \in LocalCells |-> s * (c + 1)],
    chem |-> [i \in LocalCells \X ChemEntries |-> s * 5]] : s \in {1, -1}}

\* a loop that leaves the total-energy rate where fEuler put it
OverwriteKeepsEt(wd) ==
  [wd EXCEPT !.chem = [i \in DOMAIN wd.chem |->
     IF i[2] = geEntry THEN wd.et[i[1]] ELSE wd.chem[i]]]

\* chemdot[cidx] = etdot[fidx]*TUnitScale; etdot[fidx] = ZERO;  for every
\* local cell, cidx the ge entry of the cell and TUnitScale = ONE
OverwriteRates(wd) ==
  [et |-> [c \in LocalCells |-> 0],
   chem |-> [i \in DOMAIN wd.chem |->
     IF i = BUFIDX(geEntry, i[1]) THEN wd.et[i[1]] * 1 ELSE wd.chem[i]]]

\* fexpl(t, w, wdot, user_data), called by the integrator on a state in code
\* units
fexpl ==
  /\ ppc = "ready"
  /\ ~inPhysical
  /\ wBefore' = wstate
  /\ lastOp' = "fexpl"
  /\ UNCHANGED <<dscale, EnergyUnits, wUnscaled>>
  /\ \E applied \in {apply_Dengo_scaling(wstate, dscale)} :
     \E updated \in {UpdateEnergy(applied, EnergyUnits)} :
     \E restored \in {unapply_Dengo_scaling(updated, dscale)} :
       \/ \* the timer does not start (wdot not yet written), or an array
          \* pointer is NULL (wdot zeroed): return(-1)
          /\ wstate' = wstate /\ inPhysical' = FALSE
          /\ wdot' \in {<< >>, ZeroRates} /\ hydro' = << >>
          /\ ppret' = -1 /\ ppc' = "failed" /\ ppsite' = "early"
       \/ \* apply_Dengo_scaling fails, having scaled the block or not
          /\ \E done \in BOOLEAN :
               /\ wstate' = IF done THEN applied ELSE wstate
               /\ inPhysical' = done
          /\ wdot' = ZeroRates /\ hydro' = << >>
          /\ ppret' = -1 /\ ppc' = "failed" /\ ppsite' = "apply"
       \/ \* fEuler reports a failure: return(retval)
          /\ \E rv \in {-1, 1} :
               /\ TRUE \in check_flag1(rv)
               /\ ppret' = rv
          /\ wstate' = updated /\ inPhysical' = TRUE
          /\ \E h \in HydroRates : wdot' \in {ZeroRates, h} /\ hydro' = wdot'
          /\ ppc' = "failed" /\ ppsite' = "fEuler"
       \/ \* fEuler succeeded and the rates are exchanged
          \E h \in HydroRates :
            /\ hydro' = h
            /\ wdot' = OverwriteRates(h)
            /\ \/ \* unapply_Dengo_scaling fails, having unscaled or not
                  /\ \E done \in BOOLEAN :
                       /\ wstate' = IF done THEN restored ELSE updated
                       /\ inPhysical' = ~done
                  /\ ppret' = -1 /\ ppc' = "failed" /\ ppsite' = "unapply"
               \/ \* the timer fails to stop: return(-1)
                  /\ wstate' = restored /\ inPhysical' = FALSE
                  /\ ppret' = -1 /\ ppc' = "failed" /\ ppsite' = "stop"
               \/ \* return(0)
                  /\ wstate' = restored /\ inPhysical' = FALSE
                  /\ ppret' = 0 /\ ppc' = "ready" /\ ppsite' = "ok"

\* main: apply_Dengo_scaling(w, udata) before the solution is written
ApplyScaling ==
  /\ ppc = "ready"
  /\ ~inPhysical
  /\ wstate' = apply_Dengo_scaling(wstate, dscale)
  /\ inPhysical' = TRUE
  /\ wBefore' = wstate
  /\ wUnscaled' = wstate
  /\ lastOp' = "apply"
  /\ ppret' = 0
  /\ UNCHANGED <<ppc, dscale, EnergyUnits>>
  /\ NoRhsCall

\* main: unapply_Dengo_scaling(w, udata) after the solution is written
UnapplyScaling ==
  /\ ppc = "ready"
  /\ inPhysical
  /\ wstate' = unapply_Dengo_scaling(wstate, dscale)
  /\ inPhysical' = FALSE
  /\ wBefore' = wstate
  /\ lastOp' = "unapply"
  /\ ppret' = 0
  /\ UNCHANGED <<ppc, dscale, EnergyUnits, wUnscaled>>
  /\ NoRhsCall

\* PostprocessStep(t, w, user_data), called by the integrator after a step
PostprocessStep ==
  /\ ppc = "ready"
  /\ ~inPhysical
  /\ wBefore' = wstate
  /\ lastOp' = "post"
  /\ UNCHANGED <<dscale, EnergyUnits, wUnscaled>>
  /\ NoRhsCall
  /\ \E applied \in {apply_Dengo_scaling(wstate, dscale)} :
     \E updated \in {UpdateEnergy(applied, EnergyUnits)} :
       \/ \* the timer or an array pointer fails: return(-1)
          /\ wstate' = wstate
          /\ inPhysical' = FALSE
          /\ ppret' = -1 /\ ppc' = "failed"
       \/ \* apply_Dengo_scaling fails, having scaled the block or not
          /\ \E done \in BOOLEAN :
               /\ wstate' = IF done THEN applied ELSE wstate
               /\ inPhysical' = done
          /\ ppret' = -1 /\ ppc' = "failed"
       \/ \* unapply_Dengo_scaling fails, having unscaled the block or not
          /\ \E done \in BOOLEAN :
               /\ wstate' = IF done THEN unapply_Dengo_scaling(updated, dscale)
                                    ELSE updated
               /\ inPhysical' = ~done
          /\ ppret' = -1 /\ ppc' = "failed"
       \/ \* return(0), or the timer fails to stop: return(-1)
          /\ wstate' = unapply_Dengo_scaling(updated, dscale)
          /\ inPhysical' = FALSE
          /\ \/ ppret' = 0 /\ ppc' = "ready"
             \/ ppret' = -1 /\ ppc' = "failed"

PostFrame ==
  UNCHANGED <<lsVars, drVars, chVars, atVars, rsVars, inVars, smVars>>

PostNext ==
  \/ ApplyScaling /\ PostFrame
  \/ UnapplyScaling /\ PostFrame
  \/ PostprocessStep /\ PostFrame
  \/ fexpl /\ PostFrame

SpecPost == PostInit /\ [][PostNext]_vars

FluidOf(wv) == <<wv.rho, wv.mx, wv.my, wv.mz, wv.et>>

InvC17 ==
  (lastOp = "post" /\ ppret = 0) =>
    /\ wstate.rho = wBefore.rho /\ wstate.mx = wBefore.mx
    /\ wstate.my = wBefore.my /\ wstate.mz = wBefore.mz
    /\ wstate.chem = wBefore.chem
    /\ \A c \in LocalCells :
         LET ge == wBefore.chem[<<c, geEntry>>] * dscale[<<c, geEntry>>]
             m2 == wBefore.mx[c] * wBefore.mx[c] + wBefore.my[c] * wBefore.my[c]
                   + wBefore.mz[c] * wBefore.mz[c]
         IN /\ (EtUnit * ge) % EnergyUnits = 0
            /\ (EtUnit * m2) % (2 * wBefore.rho[c]) = 0
            /\ wstate.et[c] = (EtUnit * ge) \div EnergyUnits
                              + (EtUnit * m2) \div (2 * wBefore.rho[c])

\* a successful call that changed et in a cell with momentum, with an
\* internal energy whose physical value differs from its code value
WitC17 ==
  /\ lastOp = "post" /\ ppret = 0
  /\ \E c \in LocalCells :
       /\ wstate.et[c] # wBefore.et[c]
       /\ wBefore.mx[c] # 0 /\ wBefore.mz[c] # 0
       /\ dscale[<<c, geEntry>>] # 1
       /\ wBefore.rho[c] = 2 /\ EnergyUnits = 2

(***************************************************************************)
(* load_inputs: defaults, input file, command line, broadcast              *)
(***************************************************************************)

\* double dbuff[28]; long int ibuff[28];
BuffLen == 28
\* MPI_Bcast(dbuff, 28, MPI_DOUBLE, ...), MPI_Bcast(ibuff, 27, MPI_LONG, ...)
DCount == 28
ICount == 27

\* myid of a rank; the root process is the one with myid == 0
myid(r) == r - 1

\* ibuff[0] = udata.nx; ... ibuff[26] = opts.localreduce: the parameter packed
\* into each slot, slot i at position i+1
IPack ==
  <<"nx", "ny", "nz", "xlbc", "xrbc", "ylbc", "yrbc", "zlbc", "zrbc", "nout",
    "showstats", "order", "dense_order", "etable", "itable", "mtable",
    "adapt_method", "maxnef", "mxhnil", "mxsteps", "pq", "restart",
    "predictor", "maxniters", "fixedstep", "fusedkernels", "localreduce">>

\* dbuff[0] = udata.xl; ... dbuff[27] = opts.htrans
DPack ==
  <<"xl", "xr", "yl", "yr", "zl", "zr", "t0", "tf", "gamma", "cfl", "safety",
    "bias", "growth", "k1", "k2", "k3", "etamx1", "etamxf", "h0", "hmin",
    "hmax", "rtol", "atol", "nlconvcoef", "MassUnits", "LengthUnits",
    "TimeUnits", "htrans">>

\* an unpacking that takes restart and predictor from each other's slot
IUnpackCrossed ==
  <<"nx", "ny", "nz", "xlbc", "xrbc", "ylbc", "yrbc", "zlbc", "zrbc", "nout",
    "showstats", "order", "dense_order", "etable", "itable", "mtable",
    "adapt_method", "maxnef", "mxhnil", "mxsteps", "pq", "predictor",
    "restart", "maxniters", "fixedstep", "fusedkernels", "localreduce">>

\* udata.nx = ibuff[0]; ... opts.localreduce = ibuff[26]: the parameter each
\* slot is unpacked into
IUnpack ==
  <<"nx", "ny", "nz", "xlbc", "xrbc", "ylbc", "yrbc", "zlbc", "zrbc", "nout",
    "showstats", "order", "dense_order", "etable", "itable", "mtable",
    "adapt_method", "maxnef", "mxhnil", "mxsteps", "pq", "restart",
    "predictor", "maxniters", "fixedstep", "fusedkernels", "localreduce">>

\* udata.xl = dbuff[0]; ... opts.htrans = dbuff[27]
DUnpack ==
  <<"xl", "xr", "yl", "yr", "zl", "zr", "t0", "tf", "gamma", "cfl", "safety",
    "bias", "growth", "k1", "k2", "k3", "etamx1", "etamxf", "h0", "hmin",
    "hmax", "rtol", "atol", "nlconvcoef", "MassUnits", "LengthUnits",
    "TimeUnits", "htrans">>

\* the parameters the sscanf calls read from a line "name = value", which are
\* also the long names of the command-line options that take a value or,
\* for showstats, stand for the value 1
ParamNames ==
  {"xl", "xr", "yl", "yr", "zl", "zr", "t0", "tf", "gamma", "MassUnits",
   "LengthUnits", "TimeUnits", "nx", "ny", "nz", "xlbc", "xrbc", "ylbc",
   "yrbc", "zlbc", "zrbc", "cfl", "nout", "showstats", "order", "dense_order",
   "etable", "itable", "mtable", "adapt_method", "maxnef", "mxhnil",
   "mxsteps", "safety", "bias", "growth", "pq", "k1", "k2", "k3", "etamx1",
   "etamxf", "h0", "hmin", "hmax", "fixedstep", "htrans", "rtol", "atol",
   "restart", "predictor", "maxniters", "nlconvcoef", "fusedkernels",
   "localreduce"}

\* the values udata and opts are constructed with; restart is a local
\* variable of main that is not initialized
Constructed(stale) == [p \in ParamNames |-> IF p = "restart" THEN stale ELSE 0]

\* while (fgets(...)) { retval += sscanf(line, "xl = %lf", &udata.xl); ... }
ReadFile(cur, lines) ==
  [p \in DOMAIN cur |-> IF p \in DOMAIN lines THEN lines[p] ELSE cur[p]]

\* a merge in which the command line is not looked at
CommandLineIgnored(cur, given) == cur

\* if (options[ixl].count) udata.xl = atof(options[ixl].argument); ...
\* if (options[ishow].count) udata.showstats = 1;
CommandLine(cur, given) ==
  [p \in DOMAIN cur |->
     IF p \in DOMAIN given
       THEN (IF p = "showstats" THEN 1 ELSE given[p])
       ELSE cur[p]]

\* the buffer after packing: slot i holds the parameter order[i+1], the
\* slots that are not assigned keep what they held
Pack(cur, order, old) ==
  [i \in 1..BuffLen |-> IF i <= Len(order) THEN cur[order[i]] ELSE old[i]]

\* the receive buffer after MPI_Bcast of count entries
Received(wire, count, old) ==
  [i \in 1..BuffLen |-> IF i <= count THEN wire[i] ELSE old[i]]

\* the assignments from the buffers, in the order of the code
Unpack(cur, ib, db) ==
  [p \in DOMAIN cur |->
     IF \E i \in DOMAIN DUnpack : DUnpack[i] = p
       THEN db[MaxOf({i \in DOMAIN DUnpack : DUnpack[i] = p})]
     ELSE IF \E i \in DOMAIN IUnpack : IUnpack[i] = p
       THEN ib[MaxOf({i \in DOMAIN IUnpack : IUnpack[i] = p})]
     ELSE cur[p]]

\* at most one line of the file and one option of the command line set a
\* parameter; the file writes 1, the command line 2, memory that was never
\* written holds 0 or 5; when both are given they set the same parameter,
\* or the file sets htrans
OneSetting(v) == {<< >>} \cup {[p \in {q} |-> v] : q \in ParamNames}

InputsInit ==
  /\ LSIdle /\ DriverIdle /\ ChemIdle /\ ATimesIdle /\ RestartIdle /\ PostIdle
  /\ SmokeIdle
  /\ lpc = [r \in Ranks |-> "enter"]
  /\ helpAsked \in BOOLEAN
  /\ fileGiven \in {"no", "yes", "unreadable"}
  /\ fileLines \in OneSetting(1)
  /\ fileGiven # "yes" => fileLines = << >>
  /\ argvOpts \in OneSetting(2)
  /\ \/ fileLines = << >>
     \/ argvOpts = << >>
     \/ DOMAIN fileLines = DOMAIN argvOpts
     \/ DOMAIN fileLines = {"htrans"}
  /\ junk \in {0, 5}
  /\ settings = [r \in Ranks |-> Constructed(junk)]
  /\ dbuff = [r \in Ranks |-> [i \in 1..BuffLen |-> junk]]
  /\ ibuff = [r \in Ranks |-> [i \in 1..BuffLen |-> junk]]
  /\ wireD = << >>
  /\ wireI = << >>
  /\ packed = << >>
  /\ lret = [r \in Ranks |-> 0]

LoadReturn(r, value) ==
  /\ lpc' = [lpc EXCEPT ![r] = "returned"]
  /\ lret' = [lret EXCEPT ![r] = value]

\* load_inputs up to the first MPI_Bcast: restart = -1, and on the root the
\* command line, the input file, the merge and the packing
Enter(r) ==
  /\ lpc[r] = "enter"
  /\ UNCHANGED <<helpAsked, fileGiven, fileLines, argvOpts, junk, wireD, wireI>>
  /\ \E cur \in {[settings[r] EXCEPT !["restart"] = -1]} :
       IF myid(r) # 0
         THEN /\ settings' = [settings EXCEPT ![r] = cur]
              /\ lpc' = [lpc EXCEPT ![r] = "bcastD"]
              /\ UNCHANGED <<dbuff, ibuff, packed, lret>>
       ELSE IF helpAsked
         THEN /\ settings' = [settings EXCEPT ![r] = cur]
              /\ LoadReturn(r, 1)
              /\ UNCHANGED <<dbuff, ibuff, packed>>
       ELSE IF fileGiven = "unreadable"
         THEN /\ settings' = [settings EXCEPT ![r] = cur]
              /\ LoadReturn(r, -1)
              /\ UNCHANGED <<dbuff, ibuff, packed>>
       ELSE \E merged \in {CommandLine(IF fileGiven = "yes"
                                         THEN ReadFile(cur, fileLines)
                                         ELSE cur, argvOpts)} :
              /\ settings' = [settings EXCEPT ![r] = merged]
              /\ ibuff' = [ibuff EXCEPT ![r] = Pack(merged, IPack, ibuff[r])]
              /\ dbuff' = [dbuff EXCEPT ![r] = Pack(merged, DPack, dbuff[r])]
              /\ packed' = merged
              /\ lpc' = [lpc EXCEPT ![r] = "bcastD"]
              /\ UNCHANGED lret

\* MPI_Bcast(dbuff, 28, MPI_DOUBLE, 0, MPI_COMM_WORLD), or its failure
BcastD(r) ==
  /\ lpc[r] = "bcastD"
  /\ UNCHANGED <<helpAsked, fileGiven, fileLines, argvOpts, junk, settings,
                 ibuff, wireI, packed>>
  /\ \/ /\ LoadReturn(r, -1)
        /\ UNCHANGED <<dbuff, wireD>>
     \/ /\ myid(r) = 0
        /\ wireD' = dbuff[r]
        /\ lpc' = [lpc EXCEPT ![r] = "bcastI"]
        /\ UNCHANGED <<dbuff, lret>>
     \/ /\ myid(r) # 0
        /\ wireD # << >>
        /\ dbuff' = [dbuff EXCEPT ![r] = Received(wireD, DCount, dbuff[r])]
        /\ lpc' = [lpc EXCEPT ![r] = "bcastI"]
        /\ UNCHANGED <<wireD, lret>>

\* MPI_Bcast(ibuff, 27, MPI_LONG, 0, MPI_COMM_WORLD) or its failure, then
\* the unpacking, udata.UpdateUnits() and the return
BcastI(r) ==
  /\ lpc[r] = "bcastI"
  /\ UNCHANGED <<helpAsked, fileGiven, fileLines, argvOpts, junk, dbuff,
                 wireD, packed>>
  /\ \/ /\ LoadReturn(r, -1)
        /\ UNCHANGED <<ibuff, wireI, settings>>
     \/ /\ myid(r) = 0 \/ wireI # << >>
        /\ \E got \in {IF myid(r) = 0 THEN ibuff[r]
                       ELSE Received(wireI, ICount, ibuff[r])} :
             /\ ibuff' = [ibuff EXCEPT ![r] = got]
             /\ wireI' = IF myid(r) = 0 THEN got ELSE wireI
             /\ settings' = [settings EXCEPT
                               ![r] = Unpack(settings[r], got, dbuff[r])]
        /\ \E units \in {0, 1} : LoadReturn(r, units)

InputsFrame ==
  UNCHANGED <<lsVars, drVars, chVars, atVars, rsVars, ppVars, smVars>>

InputsNext ==
  \/ \E r \in Ranks : Enter(r) /\ InputsFrame
  \/ \E r \in Ranks : BcastD(r) /\ InputsFrame
  \/ \E r \in Ranks : BcastI(r) /\ InputsFrame

SpecInputs == InputsInit /\ [][InputsNext]_vars

\* the value the rules of precedence give parameter p
Precedence(p) ==
  IF p \in DOMAIN argvOpts THEN (IF p = "showstats" THEN 1 ELSE argvOpts[p])
  ELSE IF fileGiven = "yes" /\ p \in DOMAIN fileLines THEN fileLines[p]
  ELSE IF p = "restart" THEN -1
  ELSE 0

LoadedOn(r) == lpc[r] = "returned" /\ lret[r] = 0

\* C18: the value load_inputs leaves in a parameter -- on the root once it
\* has merged its inputs, on every rank on which load_inputs has returned 0
\* -- is the command-line value if the option was given, else the value of
\* the input file if the file sets it, else the default (-1 for restart).
InvC18 ==
  \A r \in Ranks :
    (LoadedOn(r) \/ (myid(r) = 0 /\ lpc[r] \in {"bcastD", "bcastI"})) =>
      \A p \in ParamNames : settings[r][p] = Precedence(p)

\* every rank has loaded a parameter that the file and the command line
\* both set
WitC18 ==
  /\ \A r \in Ranks : LoadedOn(r)
  /\ fileGiven = "yes"
  /\ \E p \in DOMAIN fileLines : p \in DOMAIN argvOpts /\ argvOpts[p] # fileLines[p]

\* C19: on every rank on which load_inputs has returned 0, every parameter
\* holds the value the root packed; every packed slot is unpacked into the
\* parameter it was packed from, and the broadcast counts cover the packed
\* slots.
InvC19 ==
  /\ \A r \in Ranks : LoadedOn(r) => settings[r] = packed
  /\ IUnpack = IPack /\ DUnpack = DPack
  /\ Len(IPack) <= ICount /\ Len(DPack) <= DCount
  /\ ICount <= BuffLen /\ DCount <= BuffLen

\* a rank other than the root has loaded restart from the command line and
\* htrans from the file, with different contents of unwritten memory
WitC19 ==
  \E r \in Ranks :
    /\ myid(r) # 0 /\ LoadedOn(r)
    /\ junk = 5
    /\ fileGiven = "yes" /\ "htrans" \in DOMAIN fileLines
    /\ "restart" \in DOMAIN argvOpts
    /\ settings[r]["restart"] = 2 /\ settings[r]["htrans"] = 1

(***************************************************************************)
(* The smoke test: uniform state, zero forcing, explicit RHS               *)
(***************************************************************************)

\* longest grid line and number of steps of a run
MaxLine == 4
MaxSmokeSteps == 2

\* reals are held in units of 1/FxUnit; products and quotients are rounded
\* down to that unit
FxUnit == 10 * 10
Mul(a, b) == (a * b) \div FxUnit
Div(a, b) == (a * FxUnit) \div b
ISqrt(a) == CHOOSE r \in 0..(a + 1) : r * r <= a /\ (r + 1) * (r + 1) > a

Fields == {"rho", "mx", "my", "mz", "et"}
Axes == {"mx", "my", "mz"}
ZeroFields == [f \in Fields |-> 0]

\* rho[idx] = 4.0; mx[idx] = 0.5; my[idx] = 0.3; mz[idx] = 0.1; et[idx] = 2.0
\* in every cell
initial_conditions(n) ==
  [i \in 1..n |-> [rho |-> 4 * FxUnit, mx |-> FxUnit \div 2,
                   my |-> (3 * FxUnit) \div 10, mz |-> FxUnit \div 10,
                   et |-> 2 * FxUnit]]

\* a forcing of the density
UnitForces(n) == [i \in 1..n |-> [ZeroFields EXCEPT !["rho"] = FxUnit]]

\* Grho[idx] = Gmx[idx] = Gmy[idx] = Gmz[idx] = Get[idx] = ZERO in every cell
external_forces(n) == [i \in 1..n |-> ZeroFields]

\* boundary tags
Replicating == {"periodic", "neumann"}
BoundaryTags == Replicating \cup {"dirichlet", "reflecting"}

\* ghost value of cell j outside 1..n from the cell it is taken from:
\* periodic wraps around, Neumann mirrors, Dirichlet is zero, reflecting
\* mirrors and changes the sign of the momentum normal to the face
GhostCell(line, n, j, tag, axis) ==
  IF tag = "periodic" THEN line[((j - 1) % n) + 1]
  ELSE IF tag = "dirichlet" THEN ZeroFields
  ELSE CHOOSE g \in
         {IF tag = "reflecting" THEN [m EXCEPT ![axis] = -m[axis]] ELSE m :
            m \in {line[IF j < 1 THEN 1 - j ELSE 2 * n + 1 - j]}} : TRUE

\* the line with its three ghost cells on either side
exchange(line, g) ==
  [j \in (-2)..(g.n + 3) |->
     IF j < 1 THEN GhostCell(line, g.n, j, g.bcl, g.axis)
     ELSE IF j > g.n THEN GhostCell(line, g.n, j, g.bcr, g.axis)
     ELSE line[j]]

\* eps + beta of a sub-stencil, eps being one unit and 12*beta = b12
Smoothness(b12) == 1 + b12 \div (12 * FxUnit)

\* nonlinear weight of a sub-stencil before normalization, d/(eps + beta)^2,
\* relative to the smoothest sub-stencil; a ratio of more than a hundred
\* gives the weight zero
WenoAlpha(d, eb, ebmin) ==
  CHOOSE a \in {IF r > FxUnit * FxUnit THEN 0
                ELSE (d * FxUnit * FxUnit * FxUnit) \div (r * r) :
                  r \in {Div(eb, ebmin)}} : TRUE

\* the sub-stencil values blended with the normalized weights
WenoBlend(a0, a1, a2, q0, q1, q2) ==
  (Div(a0, a0 + a1 + a2) * q0 + Div(a1, a0 + a1 + a2) * q1
   + Div(a2, a0 + a1 + a2) * q2) \div FxUnit

\* fifth-order WENO value at the face between c and d, from the cells a b c
\* d e, biased towards a
Weno5(a, b, c, d, e) ==
  CHOOSE v \in
    {WenoBlend(WenoAlpha(1, e0, MinOf({e0, e1, e2})),
               WenoAlpha(6, e1, MinOf({e0, e1, e2})),
               WenoAlpha(3, e2, MinOf({e0, e1, e2})),
               (2 * a - 7 * b + 11 * c) \div 6,
               (5 * c - b + 2 * d) \div 6,
               (2 * c + 5 * d - e) \div 6) :
       e0 \in {Smoothness(13 * (a - 2 * b + c) * (a - 2 * b + c)
                          + 3 * (a - 4 * b + 3 * c) * (a - 4 * b + 3 * c))},
       e1 \in {Smoothness(13 * (b - 2 * c + d) * (b - 2 * c + d)
                          + 3 * (b - d) * (b - d))},
       e2 \in {Smoothness(13 * (c - 2 * d + e) * (c - 2 * d + e)
                          + 3 * (3 * c - 4 * d + e) * (3 * c - 4 * d + e))}} :
    TRUE

\* left and right states at the face i+1/2, i = 0..n
FaceStates(padded, n) ==
  [i \in 0..n |->
     [L |-> [f \in Fields |-> Weno5(padded[i - 2][f], padded[i - 1][f],
                                    padded[i][f], padded[i + 1][f],
                                    padded[i + 2][f])],
      R |-> [f \in Fields |-> Weno5(padded[i + 3][f], padded[i + 2][f],
                                    padded[i + 1][f], padded[i][f],
                                    padded[i - 1][f])]]]

\* gamma = 1.4
GammaGas == (14 * FxUnit) \div 10

\* p = (gamma - 1) (et - (mx^2 + my^2 + mz^2) / (2 rho))
Pressure(u) ==
  Mul(GammaGas - FxUnit,
      u.et - Div(Mul(u.mx, u.mx) + Mul(u.my, u.my) + Mul(u.mz, u.mz), 2 * u.rho))

\* negative density or pressure after reconstruction
BadState(u) == u.rho <= 0 \/ Pressure(u) < 0

\* the flux of the Euler equations along the axis
EulerFlux(u, axis) ==
  CHOOSE F \in
    {[f \in Fields |->
        IF f = "rho" THEN u[axis]
        ELSE IF f = "et" THEN Mul(u.et + p, vn)
        ELSE Mul(u[f], vn) + (IF f = axis THEN p ELSE 0)] :
       vn \in {Div(u[axis], u.rho)}, p \in {Pressure(u)}} : TRUE

\* |v| + c, c^2 = gamma p / rho
WaveSpeed(u, axis) ==
  CHOOSE sp \in {(IF vn < 0 THEN -vn ELSE vn)
                   + ISqrt(Div(Mul(GammaGas, Pressure(u)), u.rho) * FxUnit) :
                 vn \in {Div(u[axis], u.rho)}} : TRUE

\* Rusanov flux of the two states of a face
NumericalFlux(face, axis) ==
  CHOOSE F \in
    {[f \in Fields |-> (FL[f] + FR[f] - Mul(sp, face.R[f] - face.L[f])) \div 2] :
       FL \in {EulerFlux(face.L, axis)}, FR \in {EulerFlux(face.R, axis)},
       sp \in {MaxOf({WaveSpeed(face.L, axis), WaveSpeed(face.R, axis)})}} : TRUE

\* fEuler(t, w, wdot, user_data) along the line: halo exchange,
\* reconstruction, fluxes, flux differences plus the external forces
fEuler(line, g, forces) ==
  CHOOSE res \in
    {IF \E i \in 0..g.n : BadState(faces[i].L) \/ BadState(faces[i].R)
       THEN [fail |-> TRUE, rhs |-> [i \in 1..g.n |-> ZeroFields]]
       ELSE CHOOSE out \in
              {[fail |-> FALSE,
                rhs |-> [i \in 1..g.n |->
                           [f \in Fields |->
                              forces[i][f] - Div(flux[i][f] - flux[i - 1][f], g.dx)]]] :
                 flux \in {[i \in 0..g.n |-> NumericalFlux(faces[i], g.axis)]}} : TRUE :
       faces \in {FaceStates(exchange(line, g), g.n)}} : TRUE

SmokeGrids ==
  {g \in [n : 3..MaxLine, bcl : BoundaryTags, bcr : BoundaryTags, axis : Axes,
          dx : {FxUnit, FxUnit \div 2}] :
     (g.bcl = "periodic") <=> (g.bcr = "periodic")}

SmokeInit ==
  /\ LSIdle /\ DriverIdle /\ ChemIdle /\ ATimesIdle /\ RestartIdle
  /\ PostIdle /\ InputsIdle
  /\ spc = "run"
  /\ sgrid \in SmokeGrids
  /\ wline = initial_conditions(sgrid.n)
  /\ rhsline = [i \in 1..sgrid.n |-> ZeroFields]
  /\ nsteps = 0

\* one step of the integrator: the explicit RHS at the current state, then
\* the state advanced by h times the RHS
SmokeStep ==
  /\ spc = "run"
  /\ nsteps < MaxSmokeSteps
  /\ \E h \in {FxUnit \div 10, FxUnit \div 5} :
     \E res \in {fEuler(wline, sgrid, external_forces(sgrid.n))} :
       /\ rhsline' = res.rhs
       /\ IF res.fail
            THEN spc' = "failed" /\ UNCHANGED <<wline, nsteps>>
            ELSE /\ wline' = [i \in 1..sgrid.n |->
                               [f \in Fields |-> wline[i][f] + Mul(h, res.rhs[i][f])]]
                 /\ nsteps' = nsteps + 1
                 /\ UNCHANGED spc
  /\ UNCHANGED sgrid

\* the end of the run
SmokeFinish ==
  /\ spc = "run"
  /\ nsteps >= 1
  /\ spc' = "done"
  /\ UNCHANGED <<sgrid, wline, rhsline, nsteps>>

SmokeFrame ==
  UNCHANGED <<lsVars, drVars, chVars, atVars, rsVars, ppVars, inVars>>

SmokeNext ==
  \/ SmokeStep /\ SmokeFrame
  \/ SmokeFinish /\ SmokeFrame

SpecSmoke == SmokeInit /\ [][SmokeNext]_vars

RhsIsZero == \A i \in DOMAIN rhsline : rhsline[i] = ZeroFields
StateRetained == wline = initial_conditions(sgrid.n)

LeftBeforeReduction(r) == rpc[r] = "returned" /\ r \notin DOMAIN sendbuf

\* C21 as stated: in a collective solve either every rank performs the
\* status all-reduce or none does: no rank returns from solve without
\* joining the reduction while another rank of the same call waits in it.
CexC21 ==
  call = "solve" =>
    ~(\E r, q \in Ranks : LeftBeforeReduction(r) /\ rpc[q] = "waiting")

\* C22 as stated: on every return path of fexpl taken after the chemistry
\* scaling has been applied (the failure of fEuler included; the path on which
\* the removal itself reports a failure is left aside), the scaling has been
\* removed again: the chemistry sub-block is the one fexpl was called with.
CexC22 ==
  (lastOp = "fexpl" /\ ppsite \in {"fEuler", "stop", "ok"}) =>
    (~inPhysical /\ wstate.chem = wBefore.chem)

LastEvolve(r) == evlog[r][Len(evlog[r])]
EvolveFailed(r) == evlog[r] # << >> /\ LastEvolve(r).failed
MainEvolves(r) == SelectSeq(evlog[r], LAMBDA e : e.phase = "main")
TransientEvolves(r) == SelectSeq(evlog[r], LAMBDA e : e.phase = "transient")

\* C23: if an evolve call (in the transient phase or in the main loop)
\* returns a negative status, the driver makes no further evolve call and
\* writes no further output, calls cleanup once (in the step of the failure,
\* and takes no step afterwards) and returns exit status 1.
InvC23 ==
  [][\A r \in Ranks :
       /\ (Len(evlog'[r]) = Len(evlog[r]) + 1
             /\ evlog'[r][Len(evlog'[r])].failed) =>
            /\ ~cleaned[r] /\ cleaned'[r]
            /\ exitCode'[r] = 1
            /\ dpc'[r] = "returned"
            /\ outputs'[r] = outputs[r]
       /\ EvolveFailed(r) =>
            /\ evlog'[r] = evlog[r] /\ evolves'[r] = evolves[r]
            /\ outputs'[r] = outputs[r]
            /\ cleaned'[r] /\ exitCode'[r] = 1
            /\ dpc'[r] = "returned"]_vars

\* an evolve of the main loop fails after a transient phase and a successful
\* pass with its output
WitC23 ==
  \E r \in Ranks :
    /\ EvolveFailed(r) /\ LastEvolve(r).phase = "main"
    /\ Len(evlog[r]) >= 3 /\ Len(outputs[r]) >= 2
    /\ cleaned[r] /\ exitCode[r] = 1

\* target of the i-th evolve call of the main loop, times nout
LoopTarget(r, i) ==
  MinOf({udata[r].t0 * udata[r].nout + i * (udata[r].tf - udata[r].t0),
         udata[r].tf * udata[r].nout})

\* C24: in a run in which every evolve succeeds (the driver returns 0), the
\* main loop has made exactly nout evolve calls, with the targets t0 + dTout
\* first and min(previous + dTout, tf) afterwards; with output enabled one
\* output follows each of them, numbered restart+1 .. restart+nout (after the
\* initial output, numbered restart); with nout <= 0 on input (NoOutput = 1)
\* the loop makes one evolve call to tf and output_solution is never called.
InvC24 ==
  \A r \in Ranks :
    /\ NoOutput[r] = 1 => outputs[r] = << >>
    /\ (dpc[r] = "returned" /\ exitCode[r] = 0) =>
         LET main == MainEvolves(r)
             n == udata[r].nout
         IN /\ Len(main) = n
            /\ \A i \in 1..Len(main) : main[i].target = LoopTarget(r, i)
            /\ NoOutput[r] = 0 =>
                 outputs[r] = [i \in 1..(n + 1) |-> restart[r] + i - 1]
            /\ NoOutput[r] = 1 =>
                 /\ n = 1
                 /\ main[1].target = udata[r].tf
    /\ (dpc[r] = "MainLoop" /\ NoOutput[r] = 0) =>
         Len(outputs[r]) = Len(MainEvolves(r)) + 1

\* a completed run of several passes whose last target is tf, on a restart
WitC24 ==
  \E r \in Ranks :
    /\ dpc[r] = "returned" /\ exitCode[r] = 0 /\ NoOutput[r] = 0
    /\ Len(MainEvolves(r)) >= 2 /\ restart[r] > 0
    /\ LastEvolve(r).target = udata[r].tf * udata[r].nout
    /\ Len(outputs[r]) = Len(MainEvolves(r)) + 1

\* C25 as stated: for the fixedstep and htrans values that pass the
\* configuration checks, the adaptive transient phase is executed if and only
\* if fixedstep is nonzero and htrans > 0, and never with htrans = 0.
CexC25 ==
  \A r \in Ranks :
    /\ TransientEvolves(r) # << >> =>
         (opts[r].fixedstep # 0 /\ opts[r].htrans > 0)
    /\ (dpc[r] \in {"BeginLoop", "MainLoop"}
          /\ opts[r].fixedstep # 0 /\ opts[r].htrans > 0) =>
         TransientEvolves(r) # << >>

\* C26: at every evolve call of the driver as many calls of
\* apply_Dengo_scaling as of unapply_Dengo_scaling have been made (scaled
\* counts the former minus the latter), whatever showstats, the output
\* suppression and the fixedstep mode are.
InvC26 ==
  [][\A r \in Ranks : Len(evlog'[r]) > Len(evlog[r]) => scaled[r] = 0]_vars

\* evolve calls of both phases with statistics and outputs in between
WitC26 ==
  \E r \in Ranks :
    /\ udata[r].showstats /\ NoOutput[r] = 0
    /\ TransientEvolves(r) # << >> /\ Len(MainEvolves(r)) >= 2
    /\ Len(outputs[r]) >= 2 /\ scaled[r] = 0

\* evolve calls in a run without output and without statistics, in adaptive mode
WitC26Quiet ==
  \E r \in Ranks :
    /\ ~udata[r].showstats /\ NoOutput[r] = 1 /\ opts[r].fixedstep = 0
    /\ MainEvolves(r) # << >>

(***************************************************************************)
(* Further claims about the chemistry kernels                              *)
(***************************************************************************)
\* C27 as stated: after an RHS evaluation the stored temperature of each cell
\* lies in the table bounds [bounds0, bounds1] (the clamp after the ten Newton
\* iterations), and the cached rate coefficient of the cell is the one
\* interpolated at that temperature.  Both comparisons of the clamp are false
\* for NaN, which an empty or negative-energy cell leaves in Ts.
CexC27 ==
  \A i \in Cells :
    ItemDone("rhs", i) =>
      /\ IsFin(Ts[i])
      /\ bounds0 <= Ts[i].v /\ Ts[i].v <= bounds1
      /\ rs_k01[i] = InterpolatedRate(Ts[i])

\* every work item of a Jacobian call has run
JacAssembled == kphase = "jac" /\ pending = {}

MatrixRows == 0..(nstrip * NSPECIES - 1)

\* C29: after the sparse Jacobian assembly over nstrip cells the CSR arrays
\* describe a block-diagonal matrix: the row pointers increase strictly from
\* 0 to NSPARSE*nstrip (64 per cell), the column indices of each row increase
\* strictly, every column index of a row of cell i lies in
\* [NSPECIES*i, NSPECIES*i + 9], and each cell contributes NSPARSE entries.
InvC29 ==
  JacAssembled =>
    /\ rowptrs[0] = 0
    /\ rowptrs[nstrip * NSPECIES] = 64 * nstrip
    /\ \A row \in MatrixRows :
         /\ rowptrs[row] < rowptrs[row + 1]
         /\ \A k \in rowptrs[row]..(rowptrs[row + 1] - 2) :
              colvals[k] < colvals[k + 1]
         /\ \A k \in rowptrs[row]..(rowptrs[row + 1] - 1) :
              LET i == row \div NSPECIES
              IN 10 * i <= colvals[k] /\ colvals[k] <= 10 * i + 9
    /\ \A i \in Cells :
         rowptrs[(i + 1) * NSPECIES] - rowptrs[i * NSPECIES] = 64

\* the second Jacobian call over more than one cell has been assembled
WitC29 ==
  /\ JacAssembled /\ nstrip >= 2 /\ ncalls >= 2
  /\ colvals[nstrip * NSPARSE - 1] = nstrip * NSPECIES - 1

(***************************************************************************)
(* Further claims about the RHS cache of fimpl                             *)
(***************************************************************************)
\* C30: the cached chemistry RHS fchemcur is written by fimpl only, and only
\* when the solver was built in iterative mode; a call of ATimes, Jimpl,
\* fexpl or PostprocessStep leaves it as it was; when the operator is applied
\* during a linear solve it holds the TimeUnits-scaled RHS of the most recent
\* fimpl, the residual evaluation at the integrator's current state.
InvC30 ==
  [][/\ fchemcur' # fchemcur => (callee' = "fimpl" /\ iterative)
     /\ callee' \in OtherCallbacks \cup {"ATimes"} => fchemcur' = fchemcur
     /\ callee' = "ATimes" =>
          /\ iterative
          /\ fchemcur = TimeUnits * fchem(ycur)]_vars

\* the operator has been applied more than once on a cache that fimpl has
\* written, with TimeUnits other than one
WitC30 ==
  /\ iterative /\ callee = "ATimes" /\ atret = 0 /\ nfeDQ >= 2
  /\ TimeUnits = 2 /\ fchemcur # 0 /\ fchemcur # 7

\* in direct mode fimpl and the other callbacks have run
WitC30Direct ==
  /\ ~iterative /\ callee = "fimpl" /\ apc = "ready" /\ resid /\ ycur # 0
====
